---- MODULE Spec2Model ----
(***************************************************************************)
(* Presence manager (services/OnlineStatusManager.js), call routes         *)
(* (routes/images.js, second half), socket connection handler (server.js,  *)
(* lines 259-438) and system monitor (services/SystemMonitor.js) of        *)
(* TUKTUK-SERVER as state machines.                                        *)
(*                                                                         *)
(* Every async method is split at its await: the synchronous prefix that   *)
(* issues the store request, the store applying (or rejecting) the         *)
(* request, and the continuation that runs when the response arrives.      *)
(***************************************************************************)
EXTENDS Integers, Sequences, FiniteSets, TLC

VARIABLES
  clock,        \* wall clock in ms since the manager was constructed
  store,        \* the users collection: userId -> presence fields and avatar of the record
  onlineUsers,  \* this.onlineUsers, a Map in insertion order
  tasks,        \* the manager calls suspended at their await, oldest first
  emitted,      \* the events this step emitted, in order
  ret,          \* what the call that returned in this step handed to its caller
  race,         \* per user: the overlap the latest call for that user started in
  issued,       \* how many calls the transport has made
  destroyed,    \* destroy() has been called on the manager
  calls,        \* the calls collection, in insertion order: a call's id is its place
  reqs,         \* the call-route requests suspended at an await, oldest first
  res,          \* the HTTP response last sent by a call route
  delivered,    \* the socket messages sent along with that response, in order
  asked,        \* how many call-route requests have been made
  lookups,      \* the getUsersStatus calls suspended at their store query, oldest first
  answer,       \* what the getUsersStatus call that returned last handed back
  queried,      \* how many getUsersStatus calls have been made
  sockets,      \* per socket id: its user, how far its connection handler is, its rooms
  inbox,        \* per socket id: the events its client has been sent, in order
  sends,        \* the send_message handlers suspended at an await, oldest first
  sent,         \* how many send_message events the clients have made
  metrics,      \* this.metrics of the system monitor
  history,      \* this.history of the system monitor: three lists of records
  listening,    \* whether a listener for the monitor's error event is registered
  thrown,       \* whether the monitor call of this step raised to its caller
  alerts,       \* the events the monitor emitted to listeners in this step
  report,       \* what the monitor read of this step returned
  made,         \* how many record calls of each kind have been made
  steps,        \* how many record calls and moves of the clock the monitor has seen
  cleanedAt     \* the time of the last run of the monitor's cleanup timer

presenceVars == <<clock, store, onlineUsers, tasks, emitted, ret, race, issued, destroyed>>

callVars == <<calls, reqs, res, delivered, asked>>

statusVars == <<lookups, answer, queried>>

roomVars == <<sockets, inbox, sends, sent>>

monitorVars == <<metrics, history, listening, thrown, alerts, report, made, steps, cleanedAt>>

vars == <<presenceVars, callVars, statusVars, roomVars, monitorVars>>

----------------------------------------------------------------------------
(* Bounds of the model *)

MaxCalls == 3
MaxInFlight == 2
MaxTicks == 1
MaxSweeps == 1

(* Inputs *)

Users == {"u1", "u2"}
Usernames == {"Unknown"}
Sockets == {1, 2}

(* this.config *)
offlineTimeout == 60000

TickSteps == {offlineTimeout, offlineTimeout + 1}

MaxMoments == 1

NoSocket == 0
NoTime == -1

----------------------------------------------------------------------------
(* The users collection *)

\* of the fields of a user record that are not about presence, the avatar
NoAvatar == ""
Avatars == {"data:image/a"}

NoRecord == [exists |-> FALSE, isOnline |-> FALSE, lastSeen |-> NoTime, socketId |-> NoSocket,
             avatar |-> NoAvatar]

NewRecord == [exists |-> TRUE, isOnline |-> FALSE, lastSeen |-> 0, socketId |-> NoSocket,
              avatar |-> NoAvatar]

\* an update that replaces the record by a new one with the given fields
Overwrite(st, id, fields) ==
  IF st[id].exists
    THEN [st EXCEPT ![id] = [f \in DOMAIN st[id] |->
                               IF f \in DOMAIN fields THEN fields[f] ELSE NewRecord[f]]]
    ELSE st

\* User.findByIdAndUpdate(id, update): $set of the given fields on the record
\* with that id; without upsert a missing record is left missing and the
\* call resolves to null without an error.
FindByIdAndUpdate(st, id, fields) ==
  IF st[id].exists
    THEN [st EXCEPT ![id] = [f \in DOMAIN st[id] |->
                               IF f \in DOMAIN fields THEN fields[f] ELSE st[id][f]]]
    ELSE st

----------------------------------------------------------------------------
(* this.onlineUsers: a JavaScript Map, kept as the sequence of its entries *)
(* in insertion order                                                      *)

MapHas(m, u) == \E k \in 1..Len(m) : m[k].userId = u

MapIndex(m, u) == CHOOSE k \in 1..Len(m) : m[k].userId = u

MapGet(m, u) == m[MapIndex(m, u)]

MapSet(m, u, e) ==
  IF MapHas(m, u) THEN [m EXCEPT ![MapIndex(m, u)] = e] ELSE Append(m, e)

MapDelete(m, u) == SelectSeq(m, LAMBDA e : e.userId # u)

NoData == [userId |-> "", socketId |-> NoSocket, username |-> "", isOnline |-> FALSE,
           lastSeen |-> NoTime, connectedAt |-> NoTime]

----------------------------------------------------------------------------
(* Pure cache reads *)

isUserOnline(u) == IF MapHas(onlineUsers, u) THEN MapGet(onlineUsers, u).isOnline ELSE FALSE

getUserStatus(u) ==
  IF MapHas(onlineUsers, u)
    THEN [username |-> MapGet(onlineUsers, u).username,
          isOnline |-> MapGet(onlineUsers, u).isOnline,
          lastSeen |-> MapGet(onlineUsers, u).lastSeen]
    ELSE [username |-> "", isOnline |-> FALSE, lastSeen |-> NoTime]

----------------------------------------------------------------------------
(* Suspended calls *)

Slots == 1..MaxInFlight

Pending == 1..Len(tasks)

RemoveAt(q, k) == SubSeq(q, 1, k - 1) \o SubSeq(q, k + 1, Len(q))

Suspend(op, u, s, n, data) ==
  [op |-> op, userId |-> u, socketId |-> s, username |-> n, now |-> clock,
   userData |-> data, pc |-> "sent", wrote |-> NoRecord,
   stale |-> <<>>, i |-> 0, swNow |-> NoTime]

\* the transport can make a further call
CanCall == Len(tasks) < MaxInFlight /\ issued < MaxCalls

\* the suspended calls that act on user u
CallsOf(u) == {k \in Pending : tasks[k].userId = u}

(* What a step hands back: the settled result of the call that returned. *)

NoSweep == [state |-> "none", stale |-> <<>>, now |-> NoTime]

NoRet == [op |-> "none", userId |-> "", outcome |-> "none", lastSeen |-> NoTime,
          socketId |-> NoSocket, stored |-> NoRecord, sweep |-> NoSweep]

\* stored: the record the call's own store write left behind (NoRecord when
\* the write matched no record, or the call made none)
Returned(op, u, outcome, t, s, sw) ==
  [op |-> op, userId |-> u, outcome |-> outcome, lastSeen |-> t, socketId |-> s,
   stored |-> NoRecord, sweep |-> sw]

(* The overlap a call starts in: which calls for the same user were still *)
(* waiting for their store write when this one was issued.                *)

NoRace == [kind |-> "none", socketId |-> NoSocket]

Unwritten(u) == {k \in CallsOf(u) : tasks[k].pc = "sent"}

\* "cc": a connect issued while exactly one other call for the user, an
\* earlier connect with another handle, waits for its store write;
\* "dc": the same with an earlier disconnect;
\* "dd": a disconnect issued right after a disconnect of the user returned
\* without an error.
RaceOf(op, u, s) ==
  IF /\ op = "connect"
     /\ Cardinality(CallsOf(u)) = 1
     /\ Unwritten(u) = CallsOf(u)
    THEN LET k == CHOOSE l \in CallsOf(u) : TRUE
         IN  CASE tasks[k].op = "connect" /\ tasks[k].socketId # s ->
                    [kind |-> "cc", socketId |-> s]
               [] tasks[k].op = "disconnect" -> [kind |-> "dc", socketId |-> s]
               [] OTHER -> NoRace
    ELSE IF /\ op = "disconnect"
            /\ ret.op = "disconnect" /\ ret.userId = u /\ ret.sweep = NoSweep
            /\ ret.outcome \in {"success", "noop"}
           THEN [kind |-> "dd", socketId |-> NoSocket]
           ELSE NoRace

\* every tick is at least offlineTimeout long
TicksOf(c) == c \div offlineTimeout

Tick(d) ==
  /\ TicksOf(clock) < MaxTicks
  /\ clock' = clock + d
  /\ ret' = NoRet
  /\ emitted' = <<>>
  /\ UNCHANGED <<store, onlineUsers, tasks, race, issued, destroyed, callVars, statusVars, roomVars, monitorVars>>

\* a millisecond passes; at most MaxMoments of them after each tick
Moment ==
  /\ clock % offlineTimeout < MaxMoments
  /\ clock' = clock + 1
  /\ ret' = NoRet
  /\ emitted' = <<>>
  /\ UNCHANGED <<store, onlineUsers, tasks, race, issued, destroyed, callVars, statusVars, roomVars, monitorVars>>

----------------------------------------------------------------------------
(* userConnected *)

ConnectEntry(c) ==
  [userId |-> c.userId, socketId |-> c.socketId, username |-> c.username,
   isOnline |-> TRUE, lastSeen |-> c.now, connectedAt |-> c.now]

ConnectUpdate(c) == [isOnline |-> TRUE, lastSeen |-> c.now, socketId |-> c.socketId]

UserOnlineEvent(c) ==
  [type |-> "userOnline", userId |-> c.userId, username |-> c.username,
   lastSeen |-> c.now, socketId |-> c.socketId]

\* a socket id names one live connection
SocketInUse(s) ==
  \/ \E k \in 1..Len(onlineUsers) : onlineUsers[k].socketId = s
  \/ \E k \in Pending : tasks[k].socketId = s

\* lines 37-42: take the time and issue the store request
ConnectIssue(u, s, n) ==
  /\ CanCall
  /\ issued' = issued + 1
  /\ ~SocketInUse(s)
  /\ tasks' = Append(tasks, Suspend("connect", u, s, n, NoData))
  /\ race' = [race EXCEPT ![u] = RaceOf("connect", u, s)]
  /\ ret' = NoRet
  /\ emitted' = <<>>
  /\ UNCHANGED <<clock, store, onlineUsers>>

UserConnected(u, s, n) ==
  /\ ConnectIssue(u, s, n)
  /\ UNCHANGED <<destroyed, callVars, statusVars, roomVars, monitorVars>>

\* lines 48-71: the continuation after the await
ConnectReturn(k) ==
  /\ k \in Pending
  /\ tasks[k].op = "connect" /\ tasks[k].pc = "ok"
  /\ onlineUsers' = MapSet(onlineUsers, tasks[k].userId, ConnectEntry(tasks[k]))
  /\ emitted' = <<UserOnlineEvent(tasks[k])>>
  /\ tasks' = RemoveAt(tasks, k)
  /\ ret' = [Returned("connect", tasks[k].userId, "success", tasks[k].now,
                      tasks[k].socketId, NoSweep) EXCEPT !.stored = tasks[k].wrote]
  /\ UNCHANGED <<clock, store, race, issued>>

ConnectResume(k) ==
  /\ ConnectReturn(k)
  /\ UNCHANGED <<destroyed, callVars, statusVars, roomVars, monitorVars>>

\* a userConnected that sets the cache entry before it rethrows
ConnectThrowKeepsEntry(k) ==
  /\ k \in Pending
  /\ tasks[k].op = "connect" /\ tasks[k].pc = "err"
  /\ onlineUsers' = MapSet(onlineUsers, tasks[k].userId, ConnectEntry(tasks[k]))
  /\ tasks' = RemoveAt(tasks, k)
  /\ race' = [race EXCEPT ![tasks[k].userId] = NoRace]
  /\ ret' = Returned("connect", tasks[k].userId, "error", NoTime, tasks[k].socketId, NoSweep)
  /\ emitted' = <<>>
  /\ UNCHANGED <<clock, store, issued, destroyed, callVars, statusVars, roomVars, monitorVars>>

\* lines 73-76: the await threw
ConnectRethrow(k) ==
  /\ k \in Pending
  /\ tasks[k].op = "connect" /\ tasks[k].pc = "err"
  /\ tasks' = RemoveAt(tasks, k)
  /\ race' = [race EXCEPT ![tasks[k].userId] = NoRace]
  /\ ret' = Returned("connect", tasks[k].userId, "error", NoTime, tasks[k].socketId, NoSweep)
  /\ emitted' = <<>>
  /\ UNCHANGED <<clock, store, onlineUsers, issued>>

ConnectThrow(k) ==
  /\ ConnectRethrow(k)
  /\ UNCHANGED <<destroyed, callVars, statusVars, roomVars, monitorVars>>

----------------------------------------------------------------------------
(* userDisconnected *)

DisconnectUpdate(c) == [isOnline |-> FALSE, lastSeen |-> c.now, socketId |-> NoSocket]

UserOfflineEvent(c) ==
  [type |-> "userOffline", userId |-> c.userId, username |-> c.userData.username,
   lastSeen |-> c.now, socketId |-> NoSocket]

\* a userDisconnected without the early return of line 86
UserDisconnectedAlways(u) ==
  /\ CanCall
  /\ issued' = issued + 1
  /\ tasks' = Append(tasks, Suspend("disconnect", u, NoSocket, "",
                                    IF MapHas(onlineUsers, u) THEN MapGet(onlineUsers, u)
                                                              ELSE NoData))
  /\ ret' = NoRet
  /\ race' = [race EXCEPT ![u] = RaceOf("disconnect", u, NoSocket)]
  /\ emitted' = <<>>
  /\ UNCHANGED <<clock, store, onlineUsers, destroyed, callVars, statusVars, roomVars, monitorVars>>

\* lines 85-91: return at once without a cache entry, else issue the store request
DisconnectIssue(u) ==
  /\ CanCall
  /\ issued' = issued + 1
  /\ IF MapHas(onlineUsers, u)
       THEN /\ tasks' = Append(tasks, Suspend("disconnect", u, NoSocket, "", MapGet(onlineUsers, u)))
            /\ ret' = NoRet
       ELSE /\ tasks' = tasks
            /\ ret' = Returned("disconnect", u, "noop", NoTime, NoSocket, NoSweep)
  /\ race' = [race EXCEPT ![u] = RaceOf("disconnect", u, NoSocket)]
  /\ emitted' = <<>>
  /\ UNCHANGED <<clock, store, onlineUsers>>

UserDisconnected(u) ==
  /\ DisconnectIssue(u)
  /\ UNCHANGED <<destroyed, callVars, statusVars, roomVars, monitorVars>>

\* lines 97-113
DisconnectReturn(k) ==
  /\ k \in Pending
  /\ tasks[k].op = "disconnect" /\ tasks[k].pc = "ok"
  /\ onlineUsers' = MapDelete(onlineUsers, tasks[k].userId)
  /\ emitted' = <<UserOfflineEvent(tasks[k])>>
  /\ tasks' = RemoveAt(tasks, k)
  /\ ret' = [Returned("disconnect", tasks[k].userId, "success", tasks[k].now, NoSocket,
                      NoSweep) EXCEPT !.stored = tasks[k].wrote]
  /\ UNCHANGED <<clock, store, race, issued>>

DisconnectResume(k) ==
  /\ DisconnectReturn(k)
  /\ UNCHANGED <<destroyed, callVars, statusVars, roomVars, monitorVars>>

\* lines 115-118
DisconnectThrow(k) ==
  /\ k \in Pending
  /\ tasks[k].op = "disconnect" /\ tasks[k].pc = "err"
  /\ tasks' = RemoveAt(tasks, k)
  /\ race' = [race EXCEPT ![tasks[k].userId] = NoRace]
  /\ ret' = Returned("disconnect", tasks[k].userId, "error", NoTime, NoSocket, NoSweep)
  /\ emitted' = <<>>
  /\ UNCHANGED <<clock, store, onlineUsers, issued, destroyed, callVars, statusVars, roomVars, monitorVars>>

----------------------------------------------------------------------------
(* updateUserActivity *)

ActivityUpdate(c) == [lastSeen |-> c.now]

\* { ...userData, lastSeen: now } over the entry read before the await
ActivityEntry(c) == [c.userData EXCEPT !.lastSeen = c.now]

\* the call without the return of line 128: the write is made and the entry
\* set for any user
ActivityUnchecked(u) ==
  /\ CanCall
  /\ issued' = issued + 1
  /\ tasks' = Append(tasks, Suspend("activity", u, NoSocket, "",
                                    IF MapHas(onlineUsers, u) THEN MapGet(onlineUsers, u)
                                    ELSE [NoData EXCEPT !.userId = u]))
  /\ ret' = NoRet
  /\ race' = [race EXCEPT ![u] = NoRace]
  /\ emitted' = <<>>
  /\ UNCHANGED <<clock, store, onlineUsers, destroyed, callVars, statusVars, roomVars, monitorVars>>

\* lines 127-135
UpdateUserActivity(u) ==
  /\ CanCall
  /\ issued' = issued + 1
  /\ IF MapHas(onlineUsers, u)
       THEN /\ tasks' = Append(tasks, Suspend("activity", u, NoSocket, "", MapGet(onlineUsers, u)))
            /\ ret' = NoRet
       ELSE /\ tasks' = tasks
            /\ ret' = Returned("activity", u, "noop", NoTime, NoSocket, NoSweep)
  /\ race' = [race EXCEPT ![u] = NoRace]
  /\ emitted' = <<>>
  /\ UNCHANGED <<clock, store, onlineUsers, destroyed, callVars, statusVars, roomVars, monitorVars>>

\* lines 137-146
ActivityResume(k) ==
  /\ k \in Pending
  /\ tasks[k].op = "activity" /\ tasks[k].pc = "ok"
  /\ onlineUsers' = MapSet(onlineUsers, tasks[k].userId, ActivityEntry(tasks[k]))
  /\ emitted' = <<>>
  /\ tasks' = RemoveAt(tasks, k)
  /\ ret' = Returned("activity", tasks[k].userId, "success", tasks[k].now, NoSocket, NoSweep)
  /\ UNCHANGED <<clock, store, race, issued, destroyed, callVars, statusVars, roomVars, monitorVars>>

\* lines 148-151
ActivityThrow(k) ==
  /\ k \in Pending
  /\ tasks[k].op = "activity" /\ tasks[k].pc = "err"
  /\ tasks' = RemoveAt(tasks, k)
  /\ race' = [race EXCEPT ![tasks[k].userId] = NoRace]
  /\ ret' = Returned("activity", tasks[k].userId, "error", NoTime, NoSocket, NoSweep)
  /\ emitted' = <<>>
  /\ UNCHANGED <<clock, store, onlineUsers, issued, destroyed, callVars, statusVars, roomVars, monitorVars>>

----------------------------------------------------------------------------
(* cleanupStaleConnections, run by the constructor's setInterval *)

IsStale(e, now) == now - e.lastSeen > offlineTimeout

\* lines 248-255: the ids of the stale entries, in Map order
StaleUsers(m, now) ==
  LET st == SelectSeq(m, LAMBDA e : IsStale(e, now))
  IN  [k \in 1..Len(st) |-> st[k].userId]

\* the for-of loop of lines 257-260 from position j on: userDisconnected
\* returns at once for an id that has no entry, so the loop runs on to the
\* first id that has one
NextStale(m, stale, j) ==
  LET cand == {k \in j..Len(stale) : MapHas(m, stale[k])}
  IN  IF cand = {} THEN Len(stale) + 1
      ELSE CHOOSE k \in cand : \A l \in cand : k <= l

SweepOf(c, state) == [state |-> state, stale |-> c.stale, now |-> c.swNow]

\* the sweeps that are suspended at an await
Sweeps == {k \in Pending : tasks[k].op = "cleanup"}

\* setInterval(..., offlineTimeout): the timer's first tick comes
\* offlineTimeout after construction, and it goes on firing whatever became
\* of the sweeps before
CleanupStaleConnections ==
  /\ ~destroyed
  /\ Len(tasks) < MaxInFlight
  /\ Cardinality(Sweeps) < MaxSweeps
  /\ clock >= offlineTimeout
  /\ LET stale == StaleUsers(onlineUsers, clock)
         c == [Suspend("cleanup", stale[1], NoSocket, "", MapGet(onlineUsers, stale[1]))
                 EXCEPT !.stale = stale, !.i = 1, !.swNow = clock]
     IN  IF stale = <<>>
           THEN /\ tasks' = tasks
                /\ race' = race
                /\ ret' = Returned("cleanup", "", "success", NoTime, NoSocket,
                                   [state |-> "done", stale |-> <<>>, now |-> clock])
           ELSE /\ tasks' = Append(tasks, c)
                /\ race' = [race EXCEPT ![stale[1]] = NoRace]
                /\ ret' = NoRet
  /\ emitted' = <<>>
  /\ UNCHANGED <<clock, store, onlineUsers, issued, destroyed, callVars, statusVars, roomVars, monitorVars>>

\* the awaited userDisconnected returned: lines 97-113 for the current id,
\* then the loop goes on to the next id
SweepReturn(k) ==
  /\ k \in Pending
  /\ tasks[k].op = "cleanup" /\ tasks[k].pc = "ok"
  /\ LET c == tasks[k]
         m == MapDelete(onlineUsers, c.userId)
         j == NextStale(m, c.stale, c.i + 1)
     IN  /\ onlineUsers' = m
         /\ emitted' = <<UserOfflineEvent(c)>>
         /\ IF j > Len(c.stale)
              THEN /\ tasks' = RemoveAt(tasks, k)
                   /\ race' = race
                   /\ ret' = Returned("disconnect", c.userId, "success", c.now, NoSocket,
                                      SweepOf(c, "done"))
              ELSE /\ tasks' = [tasks EXCEPT ![k].i = j, ![k].pc = "sent",
                                             ![k].userId = c.stale[j], ![k].now = clock,
                                             ![k].userData = MapGet(m, c.stale[j])]
                   /\ race' = [race EXCEPT ![c.stale[j]] = NoRace]
                   /\ ret' = Returned("disconnect", c.userId, "success", c.now, NoSocket,
                                      SweepOf(c, "running"))
  /\ UNCHANGED <<clock, store, issued>>

SweepResume(k) ==
  /\ SweepReturn(k)
  /\ UNCHANGED <<destroyed, callVars, statusVars, roomVars, monitorVars>>

\* the awaited userDisconnected threw: nothing catches it in the loop, so
\* the sweep ends there
SweepThrow(k) ==
  /\ k \in Pending
  /\ tasks[k].op = "cleanup" /\ tasks[k].pc = "err"
  /\ tasks' = RemoveAt(tasks, k)
  /\ race' = [race EXCEPT ![tasks[k].userId] = NoRace]
  /\ ret' = Returned("disconnect", tasks[k].userId, "error", NoTime, NoSocket,
                     SweepOf(tasks[k], "aborted"))
  /\ emitted' = <<>>
  /\ UNCHANGED <<clock, store, onlineUsers, issued, destroyed, callVars, statusVars, roomVars, monitorVars>>

\* lines 278-285: the sweep timer is cleared and the cache emptied; the
\* store is not written, and calls at their await go on
Destroy ==
  /\ ~destroyed
  /\ destroyed' = TRUE
  /\ onlineUsers' = <<>>
  /\ ret' = NoRet
  /\ emitted' = <<>>
  /\ UNCHANGED <<clock, store, tasks, race, issued, callVars, statusVars, roomVars, monitorVars>>

----------------------------------------------------------------------------
(* The store serving a request *)

UpdateOf(c) ==
  CASE c.op = "connect" -> ConnectUpdate(c)
    [] c.op = "activity" -> ActivityUpdate(c)
    [] OTHER -> DisconnectUpdate(c)

StoreApply(k) ==
  /\ k \in Pending
  /\ tasks[k].pc = "sent"
  /\ store' = FindByIdAndUpdate(store, tasks[k].userId, UpdateOf(tasks[k]))
  /\ tasks' = [tasks EXCEPT ![k].pc = "ok", ![k].wrote = store'[tasks[k].userId]]
  /\ ret' = NoRet
  /\ emitted' = <<>>
  /\ UNCHANGED <<clock, onlineUsers, race, issued, destroyed, callVars, statusVars, roomVars, monitorVars>>

StoreFail(k) ==
  /\ k \in Pending
  /\ tasks[k].pc = "sent"
  /\ tasks' = [tasks EXCEPT ![k].pc = "err"]
  /\ ret' = NoRet
  /\ emitted' = <<>>
  /\ UNCHANGED <<clock, store, onlineUsers, race, issued, destroyed, callVars, statusVars, roomVars, monitorVars>>

\* routes/user.js lines 344-348: the avatar route's write to the record of
\* the user who asks, made by the store in one step
UpdateAvatar(u, avatar) ==
  /\ store[u].exists
  /\ store[u].avatar # avatar
  /\ store' = FindByIdAndUpdate(store, u, [avatar |-> avatar])
  /\ ret' = NoRet
  /\ emitted' = <<>>
  /\ UNCHANGED <<clock, onlineUsers, tasks, race, issued,
                 destroyed, callVars, statusVars, roomVars, monitorVars>>

----------------------------------------------------------------------------
(* The call routes: every handler is split at its awaits.  The store       *)
(* serves a read at the step that resumes the handler behind it, and       *)
(* applies a write at the step that resumes the handler behind the write.  *)

MaxRequests == 3

\* the chats collection; it does not change
Chats == [c1 |-> <<"u1", "u2">>, c2 |-> <<"u1">>, c3 |-> <<"u3", "u1", "u2">>]

\* the chatId of a request body: none or malformed, well-formed and unknown, known
ChatIds == {"", "c0", "c1", "c2", "c3"}

CallIds == 1..MaxRequests

NoDoc == [caller |-> "", callee |-> "", chat |-> "", type |-> "", status |-> "",
          startedAt |-> NoTime, endedAt |-> NoTime, duration |-> 0]

\* Call.create({ caller, callee, chat, type }) with the schema's defaults
NewCall(r) ==
  [caller |-> r.userId, callee |-> r.callee, chat |-> r.chatId, type |-> "audio",
   status |-> "pending", startedAt |-> NoTime, endedAt |-> NoTime, duration |-> 0]

IsActive(d) == d.status \in {"pending", "accepted"}

\* a lookup that finds the active calls of the caller only
FindActiveOfCaller(cs, a, b) ==
  LET hit == {i \in 1..Len(cs) : IsActive(cs[i]) /\ a \in {cs[i].caller, cs[i].callee}}
  IN  IF hit = {} THEN 0 ELSE CHOOSE i \in hit : \A j \in hit : i <= j

\* Call.findOne of lines 130-137: the first active call of either user, 0 for none
FindActive(cs, a, b) ==
  LET hit == {i \in 1..Len(cs) :
                IsActive(cs[i]) /\ ({cs[i].caller, cs[i].callee} \cap {a, b} # {})}
  IN  IF hit = {} THEN 0 ELSE CHOOSE i \in hit : \A j \in hit : i <= j

\* call.save(): $set of the paths the handler changed on the document it loaded
SaveDoc(cs, id, loaded, changed) ==
  [cs EXCEPT ![id] = [f \in DOMAIN cs[id] |->
                        IF changed[f] # loaded[f] THEN changed[f] ELSE cs[id][f]]]

isMember(c, u) == \E k \in 1..Len(Chats[c]) : Chats[c][k] = u

\* chat.participants.find(p => p._id.toString() !== callerId), "" for undefined
CalleeOf(c, u) ==
  LET others == {k \in 1..Len(Chats[c]) : Chats[c][k] # u}
  IN  IF others = {} THEN ""
      ELSE Chats[c][CHOOSE k \in others : \A l \in others : k <= l]

Asking == 1..Len(reqs)

CanAsk == Len(reqs) < MaxInFlight /\ asked < MaxRequests

Request(route, u, c, id) ==
  [route |-> route, userId |-> u, chatId |-> c, callId |-> id, callee |-> "",
   pc |-> "load", doc |-> NoDoc, changed |-> NoDoc,
   now |-> NoTime, found |-> <<>>, i |-> 0]

NoRes == [route |-> "none", userId |-> "", code |-> 0, callId |-> 0, status |-> "",
          cleaned |-> 0]

Respond(r, code, id, status) ==
  [route |-> r.route, userId |-> r.userId, code |-> code, callId |-> id, status |-> status,
   cleaned |-> 0]

ToRoom(u, event, id) == [room |-> u, event |-> event, callId |-> id]

\* the handler of request k answers and is over
Answer(k, code, id, status, msgs) ==
  /\ reqs' = RemoveAt(reqs, k)
  /\ res' = Respond(reqs[k], code, id, status)
  /\ delivered' = msgs

\* the handler of request k goes on to its next await
Await(k, r) ==
  /\ reqs' = [reqs EXCEPT ![k] = r]
  /\ UNCHANGED <<res, delivered>>

(* POST /initiate *)

\* lines 113-120
Initiate(u, c) ==
  /\ CanAsk
  /\ asked' = asked + 1
  /\ IF c = ""
       THEN /\ reqs' = reqs
            /\ res' = Respond(Request("initiate", u, c, 0), 400, 0, "")
            /\ delivered' = <<>>
       ELSE /\ reqs' = Append(reqs, [Request("initiate", u, c, 0) EXCEPT !.pc = "chat"])
            /\ UNCHANGED <<res, delivered>>
  /\ UNCHANGED <<calls, presenceVars, statusVars, roomVars, monitorVars>>

\* lines 121-137: the chat is there, the checks on it, the active-call lookup issued
InitiateChat(k) ==
  /\ k \in Asking
  /\ reqs[k].route = "initiate" /\ reqs[k].pc = "chat"
  /\ LET r == reqs[k]
     IN  IF r.chatId \notin DOMAIN Chats THEN Answer(k, 404, 0, "", <<>>)
         ELSE IF ~isMember(r.chatId, r.userId) THEN Answer(k, 403, 0, "", <<>>)
         ELSE IF CalleeOf(r.chatId, r.userId) = "" THEN Answer(k, 400, 0, "", <<>>)
         ELSE Await(k, [r EXCEPT !.pc = "find", !.callee = CalleeOf(r.chatId, r.userId)])
  /\ UNCHANGED <<calls, asked, presenceVars, statusVars, roomVars, monitorVars>>

\* lines 138-142: the lookup's answer is there; 409, or the insert issued
InitiateFind(k) ==
  /\ k \in Asking
  /\ reqs[k].route = "initiate" /\ reqs[k].pc = "find"
  /\ LET r == reqs[k]
         active == FindActive(calls, r.userId, r.callee)
     IN  IF active # 0 THEN Answer(k, 409, active, calls[active].status, <<>>)
         ELSE Await(k, [r EXCEPT !.pc = "create"])
  /\ UNCHANGED <<calls, asked, presenceVars, statusVars, roomVars, monitorVars>>

\* lines 142-147: the insert is applied, the read of the populated call issued
InitiateCreate(k) ==
  /\ k \in Asking
  /\ reqs[k].route = "initiate" /\ reqs[k].pc = "create"
  /\ calls' = Append(calls, NewCall(reqs[k]))
  /\ Await(k, [reqs[k] EXCEPT !.pc = "populate", !.callId = Len(calls) + 1])
  /\ UNCHANGED <<asked, presenceVars, statusVars, roomVars, monitorVars>>

\* lines 149-167
InitiateRespond(k) ==
  /\ k \in Asking
  /\ reqs[k].route = "initiate" /\ reqs[k].pc = "populate"
  /\ LET r == reqs[k]
     IN  Answer(k, 201, r.callId, "initiated",
                <<ToRoom(r.callee, "incomingCall", r.callId),
                  ToRoom(r.userId, "callInitiated", r.callId)>>)
  /\ UNCHANGED <<calls, asked, presenceVars, statusVars, roomVars, monitorVars>>

(* POST /accept/:callId, /decline/:callId, /end/:callId *)

\* lines 218-221, 246-249, 273-276
AskCall(route, u, id) ==
  /\ CanAsk
  /\ asked' = asked + 1
  /\ reqs' = Append(reqs, Request(route, u, 0, id))
  /\ UNCHANGED <<calls, res, delivered, presenceVars, statusVars, roomVars, monitorVars>>

Accept(u, id) == AskCall("accept", u, id)

Decline(u, id) == AskCall("decline", u, id)

End(u, id) == AskCall("end", u, id)

\* Math.floor((endTime - call.startedAt) / 1000)
Duration(d, now) == IF d.startedAt = NoTime THEN 0 ELSE (now - d.startedAt) \div 1000

\* lines 222-228
AcceptLoad(k) ==
  /\ k \in Asking
  /\ reqs[k].route = "accept" /\ reqs[k].pc = "load"
  /\ LET r == reqs[k]
     IN  IF r.callId > Len(calls) THEN Answer(k, 404, r.callId, "", <<>>)
         ELSE IF calls[r.callId].callee # r.userId THEN Answer(k, 403, r.callId, "", <<>>)
         ELSE IF calls[r.callId].status # "pending" THEN Answer(k, 400, r.callId, "", <<>>)
         ELSE Await(k, [r EXCEPT !.pc = "save", !.doc = calls[r.callId],
                                 !.changed = [calls[r.callId] EXCEPT !.status = "accepted",
                                                                     !.startedAt = clock]])
  /\ UNCHANGED <<calls, asked, presenceVars, statusVars, roomVars, monitorVars>>

\* lines 228-236
AcceptSave(k) ==
  /\ k \in Asking
  /\ reqs[k].route = "accept" /\ reqs[k].pc = "save"
  /\ LET r == reqs[k]
     IN  /\ calls' = SaveDoc(calls, r.callId, r.doc, r.changed)
         /\ Answer(k, 200, r.callId, "accepted",
                   <<ToRoom(r.doc.caller, "callAccepted", r.callId),
                     ToRoom(r.doc.callee, "callAccepted", r.callId)>>)
  /\ UNCHANGED <<asked, presenceVars, statusVars, roomVars, monitorVars>>

\* lines 250-256
DeclineLoad(k) ==
  /\ k \in Asking
  /\ reqs[k].route = "decline" /\ reqs[k].pc = "load"
  /\ LET r == reqs[k]
     IN  IF r.callId > Len(calls) THEN Answer(k, 404, r.callId, "", <<>>)
         ELSE IF calls[r.callId].callee # r.userId THEN Answer(k, 403, r.callId, "", <<>>)
         ELSE IF calls[r.callId].status # "pending" THEN Answer(k, 400, r.callId, "", <<>>)
         ELSE Await(k, [r EXCEPT !.pc = "save", !.doc = calls[r.callId],
                                 !.changed = [calls[r.callId] EXCEPT !.status = "declined",
                                                                     !.endedAt = clock]])
  /\ UNCHANGED <<calls, asked, presenceVars, statusVars, roomVars, monitorVars>>

\* lines 256-263
DeclineSave(k) ==
  /\ k \in Asking
  /\ reqs[k].route = "decline" /\ reqs[k].pc = "save"
  /\ LET r == reqs[k]
     IN  /\ calls' = SaveDoc(calls, r.callId, r.doc, r.changed)
         /\ Answer(k, 200, r.callId, "declined",
                   <<ToRoom(r.doc.caller, "callDeclined", r.callId)>>)
  /\ UNCHANGED <<asked, presenceVars, statusVars, roomVars, monitorVars>>

\* lines 277-289
EndLoad(k) ==
  /\ k \in Asking
  /\ reqs[k].route = "end" /\ reqs[k].pc = "load"
  /\ LET r == reqs[k]
     IN  IF r.callId > Len(calls) THEN Answer(k, 404, r.callId, "", <<>>)
         ELSE IF r.userId \notin {calls[r.callId].caller, calls[r.callId].callee}
           THEN Answer(k, 403, r.callId, "", <<>>)
         ELSE Await(k, [r EXCEPT !.pc = "save", !.doc = calls[r.callId],
                                 !.changed = [calls[r.callId] EXCEPT
                                                !.status = "ended", !.endedAt = clock,
                                                !.duration = Duration(calls[r.callId], clock)]])
  /\ UNCHANGED <<calls, asked, presenceVars, statusVars, roomVars, monitorVars>>

\* lines 289-298
EndSave(k) ==
  /\ k \in Asking
  /\ reqs[k].route = "end" /\ reqs[k].pc = "save"
  /\ LET r == reqs[k]
     IN  /\ calls' = SaveDoc(calls, r.callId, r.doc, r.changed)
         /\ Answer(k, 200, r.callId, "ended",
                   <<ToRoom(r.doc.caller, "callEnded", r.callId),
                     ToRoom(r.doc.callee, "callEnded", r.callId)>>)
  /\ UNCHANGED <<asked, presenceVars, statusVars, roomVars, monitorVars>>

(* POST /cleanup *)

\* Call.find of lines 179-184: the active calls of user u, each with the
\* document as it is loaded
ActiveCalls(cs, u) ==
  LET ids == SelectSeq([i \in 1..Len(cs) |-> i],
                       LAMBDA i : IsActive(cs[i]) /\ u \in {cs[i].caller, cs[i].callee})
  IN  [k \in 1..Len(ids) |-> [callId |-> ids[k], doc |-> cs[ids[k]]]]

\* lines 194-198: what the loop sets on a document it loaded
Ended(d, now) ==
  [d EXCEPT !.status = "ended", !.endedAt = now, !.duration = Duration(d, now)]

\* lines 177-184
Cleanup(u) ==
  /\ CanAsk
  /\ asked' = asked + 1
  /\ reqs' = Append(reqs, [Request("cleanup", u, "", 0) EXCEPT !.pc = "find", !.now = clock])
  /\ UNCHANGED <<calls, res, delivered, presenceVars, statusVars, roomVars, monitorVars>>

\* lines 186-199: the lookup's answer is there; nothing to clean, or the
\* first save issued
CleanupFind(k) ==
  /\ k \in Asking
  /\ reqs[k].route = "cleanup" /\ reqs[k].pc = "find"
  /\ LET r == reqs[k]
         activeCalls == ActiveCalls(calls, r.userId)
     IN  IF activeCalls = <<>>
           THEN Answer(k, 200, 0, "", <<>>)
           ELSE Await(k, [r EXCEPT !.pc = "save", !.found = activeCalls, !.i = 1])
  /\ UNCHANGED <<calls, asked, presenceVars, statusVars, roomVars, monitorVars>>

\* lines 199-208: a save is applied and its callEnded sent; the next save
\* issued, or the answer given
CleanupSave(k) ==
  /\ k \in Asking
  /\ reqs[k].route = "cleanup" /\ reqs[k].pc = "save"
  /\ LET r == reqs[k]
         call == r.found[r.i]
         msgs == <<ToRoom(call.doc.caller, "callEnded", call.callId),
                   ToRoom(call.doc.callee, "callEnded", call.callId)>>
     IN  /\ calls' = SaveDoc(calls, call.callId, call.doc, Ended(call.doc, r.now))
         /\ delivered' = msgs
         /\ IF r.i = Len(r.found)
              THEN /\ reqs' = RemoveAt(reqs, k)
                   /\ res' = [Respond(r, 200, 0, "") EXCEPT !.cleaned = r.i]
              ELSE /\ reqs' = [reqs EXCEPT ![k].i = r.i + 1]
                   /\ res' = res
  /\ UNCHANGED <<asked, presenceVars, statusVars, roomVars, monitorVars>>

\* the catch blocks of lines 168-171, 209-212, 237-240, 264-267, 299-302: the awaited
\* store request of handler k fails
CallFails(k) ==
  /\ k \in Asking
  /\ Answer(k, 500, reqs[k].callId, "", <<>>)
  /\ UNCHANGED <<calls, asked, presenceVars, statusVars, roomVars, monitorVars>>

----------------------------------------------------------------------------
(* getUsersStatus and GET /api/users/online-status *)

MaxQueries == 1

\* "Maximum 50 users per request"
MaxUsersPerRequest == 50

\* the username field of the users collection
Accounts == [u1 |-> "alice", u2 |-> "bob"]

NoStatus == [present |-> FALSE, username |-> "", isOnline |-> FALSE, lastSeen |-> NoTime]

\* lines 164-171: the status a cache entry gives
CachedStatus(e) ==
  [present |-> TRUE, username |-> e.username, isOnline |-> e.isOnline, lastSeen |-> e.lastSeen]

\* lines 183-187: the status a user record gives
StoredStatus(u) ==
  [present |-> TRUE, username |-> Accounts[u], isOnline |-> store[u].isOnline,
   lastSeen |-> store[u].lastSeen]

Ids(userIds) == {userIds[k] : k \in 1..Len(userIds)}

\* lines 160-172: the statusMap after the loop over the cache
FromCache(userIds) ==
  [u \in Users |-> IF u \in Ids(userIds) /\ MapHas(onlineUsers, u)
                     THEN CachedStatus(MapGet(onlineUsers, u)) ELSE NoStatus]

\* a getUsersStatus that asks the store for every id
MissingAll(userIds, statusMap) == userIds

\* line 175
MissingUserIds(userIds, statusMap) == SelectSeq(userIds, LAMBDA u : ~statusMap[u].present)

\* lines 177-188: User.find({ _id: { $in: missing } }) and the loop over its result
WithStored(statusMap, missing) ==
  [u \in Users |-> IF u \in Ids(missing) /\ store[u].exists
                     THEN StoredStatus(u) ELSE statusMap[u]]

NoStatusMap == [u \in Users |-> NoStatus]

NoAnswer == [code |-> 0, outcome |-> "none", userIds |-> <<>>,
             statusMap |-> NoStatusMap, asked |-> <<>>]

\* code: the HTTP status of the route's response; asked: the ids the call
\* put in its store query
Answered(code, outcome, userIds, statusMap, missing) ==
  [code |-> code, outcome |-> outcome, userIds |-> userIds, statusMap |-> statusMap,
   asked |-> missing]

Looking == 1..Len(lookups)

CanQuery == queried < MaxQueries

\* lines 158-177: the loop over the cache; return at once when nothing is
\* missing, else issue the one store query
GetUsersStatus(userIds) ==
  LET statusMap == FromCache(userIds)
      missing == MissingUserIds(userIds, statusMap)
  IN  IF missing = <<>>
        THEN /\ lookups' = lookups
             /\ answer' = Answered(200, "success", userIds, statusMap, <<>>)
        ELSE /\ lookups' = Append(lookups, [userIds |-> userIds, statusMap |-> statusMap,
                                            missing |-> missing])
             /\ answer' = answer

\* lines 177-191, and lines 197-203 of the route: the store answers the query
StatusResume(k) ==
  /\ k \in Looking
  /\ LET l == lookups[k]
     IN  answer' = Answered(200, "success", l.userIds,
                            WithStored(l.statusMap, l.missing), l.missing)
  /\ lookups' = RemoveAt(lookups, k)
  /\ UNCHANGED <<queried, presenceVars, callVars, roomVars, monitorVars>>

\* lines 193-196, and lines 204-207 of the route: the store query fails
StatusThrow(k) ==
  /\ k \in Looking
  /\ LET l == lookups[k]
     IN  answer' = Answered(500, "error", l.userIds, NoStatusMap, l.missing)
  /\ lookups' = RemoveAt(lookups, k)
  /\ UNCHANGED <<queried, presenceVars, callVars, roomVars, monitorVars>>

\* the userIds query parameter after split(','): lists of 1, 2, 50 and 51 ids
Repeated(u, n) == [k \in 1..n |-> u]

IdLists ==
  {<<"u1">>, <<"u2">>, <<"u1", "u2">>, Repeated("u1", MaxUsersPerRequest),
   Repeated("u1", MaxUsersPerRequest + 1)}

\* a route that turns away a list of MaxUsersPerRequest ids as well
OnlineStatusOffByOne(userIds) ==
  /\ CanQuery
  /\ queried' = queried + 1
  /\ IF userIds = <<>> \/ Len(userIds) >= MaxUsersPerRequest
       THEN /\ lookups' = lookups
            /\ answer' = Answered(400, "rejected", userIds, NoStatusMap, <<>>)
       ELSE GetUsersStatus(userIds)
  /\ UNCHANGED <<presenceVars, callVars, roomVars, monitorVars>>

\* server.js lines 180-195; <<>> stands for a request without the parameter
OnlineStatus(userIds) ==
  /\ CanQuery
  /\ queried' = queried + 1
  /\ IF userIds = <<>> \/ Len(userIds) > MaxUsersPerRequest
       THEN /\ lookups' = lookups
            /\ answer' = Answered(400, "rejected", userIds, NoStatusMap, <<>>)
       ELSE GetUsersStatus(userIds)
  /\ UNCHANGED <<presenceVars, callVars, roomVars, monitorVars>>

----------------------------------------------------------------------------
(* The socket connection handler: server.js, lines 259-438 *)

MaxSends == 1

\* the chat ids a client puts into join_chat, leave_chat and send_message:
\* ids of chats that exist
RoomChatIds == {"c1", "c2"}

\* state: "closed" (no connection has this id), "connecting" (the handler
\* waits for userConnected), "ready" (the handler has run to its end: the
\* socket is in its personal room and its event handlers are registered),
\* "bare" (the handler stopped in its catch block: the socket is open, in
\* no room and without event handlers)
NoSession == [userId |-> "", state |-> "closed", rooms |-> {}]

UserRoom(u) == <<"user", u>>

ChatRoom(c) == <<"chat", c>>

Connected == {s \in Sockets : sockets[s].state # "closed"}

Ready == {s \in Sockets : sockets[s].state = "ready"}

\* the adapter's view of a room: the sockets that joined it and are open
InRoom(room) == {s \in Sockets : room \in sockets[s].rooms}

\* an event as a client sees it: its name and, of its payload, the message
\* id, the chat id and the user id (0 and "" where the payload has none)
Event(event, m, c, u) == [event |-> event, msg |-> m, chat |-> c, userId |-> u]

\* an emit that reaches every socket id, whatever the targets
EmitToAll(box, targets, e) == [s \in Sockets |-> Append(box[s], e)]

\* emit to a set of sockets: one copy to each of them
EmitTo(box, targets, e) ==
  [s \in Sockets |-> IF s \in targets THEN Append(box[s], e) ELSE box[s]]

\* io.to(room).emit(event, ...)
ToRoomEmit(box, room, e) == EmitTo(box, InRoom(room), e)

Sending == 1..Len(sends)

\* lines 259-271: the handler starts and waits for userConnected
Connection(u, s) ==
  /\ sockets[s].state = "closed"
  /\ \A k \in Sending : sends[k].socketId # s
  /\ ConnectIssue(u, s, "Unknown")
  /\ sockets' = [sockets EXCEPT ![s] = [userId |-> u, state |-> "connecting", rooms |-> {}]]
  /\ inbox' = [inbox EXCEPT ![s] = <<>>]
  /\ UNCHANGED <<sends, sent, destroyed, callVars, statusVars, monitorVars>>

\* lines 303-437: the personal room is joined and the handlers are registered
Registered(s) ==
  [sockets EXCEPT ![s] = [userId |-> sockets[s].userId, state |-> "ready",
                          rooms |-> {UserRoom(sockets[s].userId)}]]

\* lines 272-296, then 303-437: userConnected returned
ConnectionSucceeds(k) ==
  /\ ConnectReturn(k)
  /\ LET s == tasks[k].socketId
     IN  /\ sockets' = Registered(s)
         /\ inbox' = EmitTo(EmitTo(inbox, {s}, Event("onlineUsersSync", 0, "", "")),
                            Connected \ {s}, Event("userOnline", 0, "", tasks[k].userId))
  /\ UNCHANGED <<sends, sent, destroyed, callVars, statusVars, monitorVars>>

\* lines 297-300: userConnected threw; recordError in the catch block throws
\* in its turn, for want of a listener of the monitor's error event, and the
\* handler ends there
ConnectionFails(k) ==
  /\ ConnectRethrow(k)
  /\ sockets' = [sockets EXCEPT ![tasks[k].socketId].state = "bare"]
  /\ UNCHANGED <<inbox, sends, sent, destroyed, callVars, statusVars, monitorVars>>

\* the transport of a socket without a disconnect handler closes
Drop(s) ==
  /\ sockets[s].state = "bare"
  /\ sockets' = [sockets EXCEPT ![s] = NoSession]
  /\ UNCHANGED <<inbox, sends, sent, presenceVars, callVars, statusVars, monitorVars>>

\* lines 306-309: no check of who joins
JoinChat(s, c) ==
  /\ s \in Ready
  /\ ChatRoom(c) \notin sockets[s].rooms
  /\ sockets' = [sockets EXCEPT ![s].rooms = @ \cup {ChatRoom(c)}]
  /\ UNCHANGED <<inbox, sends, sent, presenceVars, callVars, statusVars, monitorVars>>

\* lines 312-315
LeaveChat(s, c) ==
  /\ s \in Ready
  /\ ChatRoom(c) \in sockets[s].rooms
  /\ sockets' = [sockets EXCEPT ![s].rooms = @ \ {ChatRoom(c)}]
  /\ UNCHANGED <<inbox, sends, sent, presenceVars, callVars, statusVars, monitorVars>>

\* lines 425-432: the transport closes, the socket leaves its rooms and
\* the disconnect handler calls userDisconnected
Disconnect(s) ==
  /\ s \in Ready
  /\ DisconnectIssue(sockets[s].userId)
  /\ sockets' = [sockets EXCEPT ![s] = NoSession]
  /\ UNCHANGED <<inbox, sends, sent, destroyed, callVars, statusVars, monitorVars>>

\* lines 36-39: the manager's userOffline goes to every open socket
DisconnectionRelayed(k) ==
  /\ DisconnectReturn(k)
  /\ inbox' = EmitTo(inbox, Connected, Event("userOffline", 0, "", tasks[k].userId))
  /\ UNCHANGED <<sockets, sends, sent, destroyed, callVars, statusVars, monitorVars>>

\* lines 36-39: the userOffline of a sweep goes the same way
EvictionRelayed(k) ==
  /\ SweepReturn(k)
  /\ inbox' = EmitTo(inbox, Connected, Event("userOffline", 0, "", tasks[k].userId))
  /\ UNCHANGED <<sockets, sends, sent, destroyed, callVars, statusVars, monitorVars>>

(* send_message *)

\* lines 318-330: build the message and issue its save
SendMessage(s, c) ==
  /\ s \in Ready
  /\ sent < MaxSends
  /\ sent' = sent + 1
  /\ sends' = Append(sends, [socketId |-> s, userId |-> sockets[s].userId, chatId |-> c,
                            msg |-> sent + 1, pc |-> "save"])
  /\ UNCHANGED <<sockets, inbox, presenceVars, callVars, statusVars, monitorVars>>

\* the awaits of lines 330, 333, 339 and 343 in their order
NextAwait(pc) ==
  CASE pc = "save" -> "update"
    [] pc = "update" -> "find"
    [] pc = "find" -> "chat"
    [] OTHER -> "emit"

\* the store answers the await the handler waits at
SendAwait(k) ==
  /\ k \in Sending
  /\ sends[k].pc # "emit"
  /\ sends' = [sends EXCEPT ![k].pc = NextAwait(@)]
  /\ UNCHANGED <<sockets, inbox, sent, presenceVars, callVars, statusVars, monitorVars>>

\* lines 386-388: socket.emit('error') reaches the sender if it is still open
ErrorTo(box, s) == EmitTo(box, {s} \cap Connected, Event("error", 0, "", ""))

\* the store rejects the await the handler waits at
SendFails(k) ==
  /\ k \in Sending
  /\ sends[k].pc # "emit"
  /\ inbox' = ErrorTo(inbox, sends[k].socketId)
  /\ sends' = RemoveAt(sends, k)
  /\ UNCHANGED <<sockets, sent, presenceVars, callVars, statusVars, monitorVars>>

\* line 343: the chat of that id with its participants
Participants(c) == Chats[c]

\* lines 367-383: for each participant in turn, chat_updated to the
\* participant's personal room and chat_updated to the chat room
RECURSIVE ChatUpdated(_, _, _, _)
ChatUpdated(box, c, e, j) ==
  IF j > Len(Participants(c))
    THEN box
    ELSE ChatUpdated(ToRoomEmit(ToRoomEmit(box, UserRoom(Participants(c)[j]), e),
                                ChatRoom(c), e),
                     c, e, j + 1)

\* a fan-out that emits new_message to the chat room twice
FanOutTwice(box, c, m, u) ==
  ChatUpdated(ToRoomEmit(ToRoomEmit(box, ChatRoom(c), Event("new_message", m, c, u)),
                         ChatRoom(c), Event("new_message", m, c, u)),
              c, Event("chat_updated", m, c, u), 1)

\* lines 360-384: new_message to the chat room, then the chat_updated loop
FanOut(box, c, m, u) ==
  ChatUpdated(ToRoomEmit(box, ChatRoom(c), Event("new_message", m, c, u)),
              c, Event("chat_updated", m, c, u), 1)

\* lines 346-388: the populated sender of a user without a record is null,
\* and reading its _id throws into the catch
SendDeliver(k) ==
  /\ k \in Sending
  /\ sends[k].pc = "emit"
  /\ inbox' = IF store[sends[k].userId].exists
                THEN FanOut(inbox, sends[k].chatId, sends[k].msg, sends[k].userId)
                ELSE ErrorTo(inbox, sends[k].socketId)
  /\ sends' = RemoveAt(sends, k)
  /\ UNCHANGED <<sockets, sent, presenceVars, callVars, statusVars, monitorVars>>

----------------------------------------------------------------------------
(* The system monitor: services/SystemMonitor.js *)

MaxSteps == 3

(* this.config, and the windows and thresholds of the methods *)
historySize == 1000
updateInterval == 30000
cleanupInterval == 300000
MinuteMs == 60000
HourMs == 3600000
MaxAge == 86400000
MemoryLimit == 500

\* error.constructor.name of the errors recorded
ErrorTypes == {"Error", "MongoError"}

\* heapUsed in MB as updateMetrics may find it
MemoryValues == {MemoryLimit, MemoryLimit + 1}

\* how many recordMessage calls in a row, at one instant, a step makes
Bursts == {1, historySize}

ElapseSteps == {1, cleanupInterval, MaxAge + 1}

Kinds == {"connections", "messages", "errors"}

(* A history list is kept as the runs of equal consecutive records on it, *)
(* oldest first: <<[data |-> r, count |-> 3]>> is the list r, r, r.       *)

Run(data, n) == [data |-> data, count |-> n]

RECURSIVE Length(_)
Length(runs) == IF runs = <<>> THEN 0 ELSE Head(runs).count + Length(Tail(runs))

\* list.push(data)
Push(runs, data) ==
  IF runs # <<>> /\ runs[Len(runs)].data = data
    THEN [runs EXCEPT ![Len(runs)].count = @ + 1]
    ELSE Append(runs, Run(data, 1))

\* the list without its k oldest records
RECURSIVE DropOldest(_, _)
DropOldest(runs, k) ==
  IF k = 0 \/ runs = <<>> THEN runs
  ELSE IF Head(runs).count > k
    THEN <<Run(Head(runs).data, Head(runs).count - k)>> \o Tail(runs)
    ELSE DropOldest(Tail(runs), k - Head(runs).count)

\* a slice that keeps the n oldest records
RECURSIVE SliceFirst(_, _)
SliceFirst(runs, n) ==
  IF n = 0 \/ runs = <<>> THEN <<>>
  ELSE IF Head(runs).count >= n
    THEN <<Run(Head(runs).data, n)>>
    ELSE <<Head(runs)>> \o SliceFirst(Tail(runs), n - Head(runs).count)

\* list.slice(-n)
SliceLast(runs, n) ==
  IF Length(runs) > n THEN DropOldest(runs, Length(runs) - n) ELSE runs

\* list.filter(record => record.timestamp > cutoff)
After(runs, cutoff) == SelectSeq(runs, LAMBDA r : r.data.timestamp > cutoff)

\* lines 168-179
addToHistory(h, type, data) ==
  LET pushed == Push(h[type], data)
  IN  [h EXCEPT ![type] = IF Length(pushed) > historySize
                            THEN SliceLast(pushed, historySize) ELSE pushed]

NewMetrics ==
  [connections |-> [total |-> 0, active |-> 0, peak |-> 0, average |-> 0],
   messages |-> [total |-> 0, perMinute |-> 0, perHour |-> 0],
   performance |-> [memoryUsage |-> 0],
   errors |-> [total |-> 0, types |-> [t \in ErrorTypes |-> 0]]]

NewHistory == [connections |-> <<>>, messages |-> <<>>, errors |-> <<>>]

\* the second of two numbers, whichever is larger
Second(a, b) == b

Max(a, b) == IF a > b THEN a ELSE b

\* lines 87-107, on the pair of this.metrics and this.history
recordConnection(mon, u, action, now) ==
  LET c == mon.metrics.connections
      active == IF action = "connect" THEN c.active + 1
                ELSE IF action = "disconnect" THEN Max(0, c.active - 1)
                ELSE c.active
      peak == IF action = "connect" /\ active > c.peak THEN active ELSE c.peak
  IN  [metrics |-> [mon.metrics EXCEPT !.connections =
                      [total |-> c.total + 1, active |-> active, peak |-> peak,
                       average |-> c.average]],
       history |-> addToHistory(mon.history, "connections",
                                [userId |-> u, action |-> action, timestamp |-> now,
                                 activeConnections |-> active])]

\* lines 195-209
updateMessageRates(mon, now) ==
  [mon EXCEPT !.metrics.messages.perMinute =
                Length(After(mon.history.messages, now - MinuteMs)),
              !.metrics.messages.perHour =
                Length(After(mon.history.messages, now - HourMs))]

\* lines 115-130
recordMessage(mon, c, u, now) ==
  updateMessageRates(
    [metrics |-> [mon.metrics EXCEPT !.messages.total = @ + 1],
     history |-> addToHistory(mon.history, "messages",
                              [chatId |-> c, userId |-> u, messageType |-> "text",
                               timestamp |-> now])],
    now)

\* n calls of recordMessage, one after the other
RECURSIVE recordMessages(_, _, _, _, _)
recordMessages(mon, c, u, now, n) ==
  IF n = 0 THEN mon
  ELSE IF n = 1 THEN recordMessage(mon, c, u, now)
  ELSE LET half == recordMessages(mon, c, u, now, n \div 2)
       IN  IF half.metrics.messages.total > mon.metrics.messages.total
             THEN recordMessages(half, c, u, now, n - n \div 2)
             ELSE half

\* lines 135-152
recordError(mon, type, now) ==
  [metrics |-> [mon.metrics EXCEPT !.errors.total = @ + 1, !.errors.types[type] = @ + 1],
   history |-> addToHistory(mon.history, "errors", [type |-> type, timestamp |-> now])]

\* lines 184-190; Math.round of a quotient of naturals
calculateAverageConnections(h) ==
  LET recent == SliceLast(h.connections, 60)
      RECURSIVE Sum(_)
      Sum(runs) == IF runs = <<>> THEN 0
                   ELSE Head(runs).data.activeConnections * Head(runs).count + Sum(Tail(runs))
  IN  IF h.connections = <<>> THEN 0
      ELSE (2 * Sum(recent) + Length(recent)) \div (2 * Length(recent))

\* a health score that looks at the memory only
healthOfMemory(m) ==
  IF m.performance.memoryUsage > MemoryLimit
    THEN [score |-> 80, status |-> "good"]
    ELSE [score |-> 100, status |-> "excellent"]

\* lines 229-267
getHealthStatus(m) ==
  LET s1 == IF m.performance.memoryUsage > MemoryLimit THEN 100 - 20 ELSE 100
      s2 == IF m.errors.total * 100 > Max(m.messages.total, 1) THEN s1 - 30 ELSE s1
      score == IF m.connections.active = 0 /\ m.connections.total > 0 THEN s2 - 10 ELSE s2
  IN  [score |-> score,
       status |-> IF score >= 90 THEN "excellent"
                  ELSE IF score >= 70 THEN "good"
                  ELSE IF score >= 50 THEN "warning"
                  ELSE "critical"]

\* lines 284-302
getDashboardData(m) ==
  [connections |-> [active |-> m.connections.active, peak |-> m.connections.peak,
                    average |-> m.connections.average],
   messages |-> m.messages,
   performance |-> m.performance,
   health |-> getHealthStatus(m)]

NoReport == [of |-> "none"]

Monitor == [metrics |-> metrics, history |-> history]

\* the monitor call of this step returned: nothing thrown, nothing read
Quietly ==
  /\ thrown' = FALSE
  /\ alerts' = <<>>
  /\ report' = NoReport

RecordConnection(u, action) ==
  /\ steps < MaxSteps
  /\ steps' = steps + 1
  /\ made' = [made EXCEPT !.connections = @ + 1]
  /\ LET mon == recordConnection(Monitor, u, action, clock)
     IN  metrics' = mon.metrics /\ history' = mon.history
  /\ Quietly
  /\ UNCHANGED <<listening, cleanedAt, presenceVars, callVars, statusVars, roomVars>>

RecordMessage(u, n) ==
  /\ steps < MaxSteps
  /\ steps' = steps + 1
  /\ made' = [made EXCEPT !.messages = @ + n]
  /\ LET mon == recordMessages(Monitor, "c1", u, clock, n)
     IN  metrics' = mon.metrics /\ history' = mon.history
  /\ Quietly
  /\ UNCHANGED <<listening, cleanedAt, presenceVars, callVars, statusVars, roomVars>>

\* lines 135-163: emit('error') without a listener for it throws
RecordError(type) ==
  /\ steps < MaxSteps
  /\ steps' = steps + 1
  /\ made' = [made EXCEPT !.errors = @ + 1]
  /\ LET mon == recordError(Monitor, type, clock)
     IN  /\ metrics' = mon.metrics /\ history' = mon.history
         /\ alerts' = IF listening
                        THEN <<[event |-> "error", type |-> type, timestamp |-> clock,
                                metrics |-> mon.metrics.errors]>>
                        ELSE <<>>
  /\ thrown' = ~listening
  /\ report' = NoReport
  /\ UNCHANGED <<listening, cleanedAt, presenceVars, callVars, statusVars, roomVars>>

\* on('error', listener), inherited from EventEmitter
OnError ==
  /\ ~listening
  /\ listening' = TRUE
  /\ Quietly
  /\ UNCHANGED <<metrics, history, made, steps, cleanedAt,
                 presenceVars, callVars, statusVars, roomVars>>

\* lines 58-60 and 71-81: the update timer fires
UpdateMetrics(mem) ==
  /\ clock >= updateInterval
  /\ metrics' = [metrics EXCEPT !.performance.memoryUsage = mem,
                                !.connections.average = calculateAverageConnections(history)]
  /\ Quietly
  /\ UNCHANGED <<history, listening, made, steps, cleanedAt,
                 presenceVars, callVars, statusVars, roomVars>>

\* lines 214-221
cleanupHistory(h, now) == [k \in Kinds |-> After(h[k], now - MaxAge)]

\* the cleanup timer is due: the time is a firing time it has not run at
CleanupDue == clock > 0 /\ clock % cleanupInterval = 0 /\ cleanedAt < clock

\* lines 63-65 and 214-224: the cleanup timer fires
CleanupHistory ==
  /\ CleanupDue
  /\ history' = cleanupHistory(history, clock)
  /\ cleanedAt' = clock
  /\ Quietly
  /\ UNCHANGED <<metrics, listening, made, steps, presenceVars, callVars, statusVars, roomVars>>

\* the last firing time of the cleanup timer before time t, 0 for none
LastFiringBefore(t) == ((t - 1) \div cleanupInterval) * cleanupInterval

\* time passes with no call to the monitor; the cleanup timer runs at each
\* of its firing times inside the interval, of which the last removes
\* whatever the earlier ones remove
Elapse(d) ==
  /\ steps < MaxSteps
  /\ ~CleanupDue
  /\ steps' = steps + 1
  /\ clock' = clock + d
  /\ LET f == LastFiringBefore(clock + d)
     IN  IF f > clock
           THEN history' = cleanupHistory(history, f) /\ cleanedAt' = f
           ELSE UNCHANGED <<history, cleanedAt>>
  /\ Quietly
  /\ UNCHANGED <<metrics, listening, made, store, onlineUsers, tasks, emitted, ret, race, issued,
                 destroyed, callVars, statusVars, roomVars>>

\* GET /api/system/health, server.js line 213
GetHealthStatus ==
  /\ report' = [of |-> "health", health |-> getHealthStatus(metrics), at |-> clock]
  /\ thrown' = FALSE
  /\ alerts' = <<>>
  /\ UNCHANGED <<metrics, history, listening, made, steps, cleanedAt,
                 presenceVars, callVars, statusVars, roomVars>>

\* GET /api/system/dashboard, server.js line 233
GetDashboardData ==
  /\ report' = [of |-> "dashboard", dashboard |-> getDashboardData(metrics), at |-> clock]
  /\ thrown' = FALSE
  /\ alerts' = <<>>
  /\ UNCHANGED <<metrics, history, listening, made, steps, cleanedAt,
                 presenceVars, callVars, statusVars, roomVars>>

----------------------------------------------------------------------------

Init ==
  /\ clock = 0
  /\ \E registered \in {Users, {"u1"}} :
       store = [u \in Users |-> IF u \in registered THEN NewRecord ELSE NoRecord]
  /\ onlineUsers = <<>>
  /\ tasks = <<>>
  /\ emitted = <<>>
  /\ ret = NoRet
  /\ race = [u \in Users |-> NoRace]
  /\ issued = 0
  /\ destroyed = FALSE
  /\ calls = <<>>
  /\ reqs = <<>>
  /\ res = NoRes
  /\ delivered = <<>>
  /\ asked = 0
  /\ lookups = <<>>
  /\ answer = NoAnswer
  /\ queried = 0
  /\ sockets = [s \in Sockets |-> NoSession]
  /\ inbox = [s \in Sockets |-> <<>>]
  /\ sends = <<>>
  /\ sent = 0
  /\ metrics = NewMetrics
  /\ history = NewHistory
  /\ listening = FALSE
  /\ thrown = FALSE
  /\ alerts = <<>>
  /\ report = NoReport
  /\ made = [k \in Kinds |-> 0]
  /\ steps = 0
  /\ cleanedAt = 0

Next ==
  \/ \E d \in TickSteps : Tick(d)
  \/ \E u \in Users, s \in Sockets, n \in Usernames : UserConnected(u, s, n)
  \/ \E u \in Users : UserDisconnected(u)
  \/ \E u \in Users : UpdateUserActivity(u)
  \/ CleanupStaleConnections
  \/ \E k \in Slots : StoreApply(k)
  \/ \E k \in Slots : StoreFail(k)
  \/ \E k \in Slots : ConnectResume(k)
  \/ \E k \in Slots : ConnectThrow(k)
  \/ \E k \in Slots : DisconnectResume(k)
  \/ \E k \in Slots : DisconnectThrow(k)
  \/ \E k \in Slots : ActivityResume(k)
  \/ \E k \in Slots : ActivityThrow(k)
  \/ \E k \in Slots : SweepResume(k)
  \/ \E k \in Slots : SweepThrow(k)

Spec == Init /\ [][Next]_vars

LifeNext ==
  \/ \E d \in TickSteps : Tick(d)
  \/ \E u \in Users, s \in Sockets, n \in Usernames : UserConnected(u, s, n)
  \/ \E u \in Users : UserDisconnected(u)
  \/ \E u \in Users : UpdateUserActivity(u)
  \/ CleanupStaleConnections
  \/ Destroy
  \/ \E k \in Slots : StoreApply(k)
  \/ \E k \in Slots : StoreFail(k)
  \/ \E k \in Slots : ConnectResume(k)
  \/ \E k \in Slots : ConnectThrow(k)
  \/ \E k \in Slots : DisconnectResume(k)
  \/ \E k \in Slots : DisconnectThrow(k)
  \/ \E k \in Slots : ActivityResume(k)
  \/ \E k \in Slots : ActivityThrow(k)
  \/ \E k \in Slots : SweepResume(k)
  \/ \E k \in Slots : SweepThrow(k)

LifeSpec == Init /\ [][LifeNext]_vars

PingNext ==
  \/ \E d \in TickSteps : Tick(d)
  \/ Moment
  \/ \E u \in Users, s \in Sockets, n \in Usernames : UserConnected(u, s, n)
  \/ \E u \in Users : UpdateUserActivity(u)
  \/ CleanupStaleConnections
  \/ \E k \in Slots : StoreApply(k)
  \/ \E k \in Slots : StoreFail(k)
  \/ \E k \in Slots : ConnectResume(k)
  \/ \E k \in Slots : ConnectThrow(k)
  \/ \E k \in Slots : ActivityResume(k)
  \/ \E k \in Slots : ActivityThrow(k)
  \/ \E k \in Slots : SweepResume(k)
  \/ \E k \in Slots : SweepThrow(k)

PingSpec == Init /\ [][PingNext]_vars

FrameNext ==
  \/ \E d \in TickSteps : Tick(d)
  \/ \E u \in Users, s \in Sockets, n \in Usernames : UserConnected(u, s, n)
  \/ \E u \in Users : UserDisconnected(u)
  \/ \E u \in Users : UpdateUserActivity(u)
  \/ \E u \in Users, avatar \in Avatars : UpdateAvatar(u, avatar)
  \/ \E k \in Slots : StoreApply(k)
  \/ \E k \in Slots : StoreFail(k)
  \/ \E k \in Slots : ConnectResume(k)
  \/ \E k \in Slots : ConnectThrow(k)
  \/ \E k \in Slots : DisconnectResume(k)
  \/ \E k \in Slots : DisconnectThrow(k)
  \/ \E k \in Slots : ActivityResume(k)
  \/ \E k \in Slots : ActivityThrow(k)

FrameSpec == Init /\ [][FrameNext]_vars

CallNext ==
  \/ \E d \in TickSteps : Tick(d)
  \/ \E u \in Users, c \in ChatIds : Initiate(u, c)
  \/ \E u \in Users, id \in CallIds : Accept(u, id)
  \/ \E u \in Users, id \in CallIds : Decline(u, id)
  \/ \E u \in Users, id \in CallIds : End(u, id)
  \/ \E k \in Slots : InitiateChat(k)
  \/ \E k \in Slots : InitiateFind(k)
  \/ \E k \in Slots : InitiateCreate(k)
  \/ \E k \in Slots : InitiateRespond(k)
  \/ \E k \in Slots : AcceptLoad(k)
  \/ \E k \in Slots : AcceptSave(k)
  \/ \E k \in Slots : DeclineLoad(k)
  \/ \E k \in Slots : DeclineSave(k)
  \/ \E k \in Slots : EndLoad(k)
  \/ \E k \in Slots : EndSave(k)
  \/ \E k \in Slots : CallFails(k)

CallSpec == Init /\ [][CallNext]_vars

CleanupNext ==
  \/ \E d \in TickSteps : Tick(d)
  \/ \E u \in Users, c \in ChatIds : Initiate(u, c)
  \/ \E u \in Users, id \in CallIds : Accept(u, id)
  \/ \E u \in Users, id \in CallIds : Decline(u, id)
  \/ \E u \in Users, id \in CallIds : End(u, id)
  \/ \E u \in Users : Cleanup(u)
  \/ \E k \in Slots : InitiateChat(k)
  \/ \E k \in Slots : InitiateFind(k)
  \/ \E k \in Slots : InitiateCreate(k)
  \/ \E k \in Slots : InitiateRespond(k)
  \/ \E k \in Slots : AcceptLoad(k)
  \/ \E k \in Slots : AcceptSave(k)
  \/ \E k \in Slots : DeclineLoad(k)
  \/ \E k \in Slots : DeclineSave(k)
  \/ \E k \in Slots : EndLoad(k)
  \/ \E k \in Slots : EndSave(k)
  \/ \E k \in Slots : CleanupFind(k)
  \/ \E k \in Slots : CleanupSave(k)
  \/ \E k \in Slots : CallFails(k)

CleanupSpec == Init /\ [][CleanupNext]_vars

StatusNext ==
  \/ \E d \in TickSteps : Tick(d)
  \/ \E u \in Users, s \in Sockets, n \in Usernames : UserConnected(u, s, n)
  \/ \E u \in Users : UserDisconnected(u)
  \/ \E k \in Slots : StoreApply(k)
  \/ \E k \in Slots : StoreFail(k)
  \/ \E k \in Slots : ConnectResume(k)
  \/ \E k \in Slots : ConnectThrow(k)
  \/ \E k \in Slots : DisconnectResume(k)
  \/ \E k \in Slots : DisconnectThrow(k)
  \/ \E userIds \in IdLists \cup {<<>>} : OnlineStatus(userIds)
  \/ \E k \in 1..MaxQueries : StatusResume(k)
  \/ \E k \in 1..MaxQueries : StatusThrow(k)

StatusSpec == Init /\ [][StatusNext]_vars

RoomNext ==
  \/ \E u \in Users, s \in Sockets : Connection(u, s)
  \/ \E k \in Slots : StoreApply(k)
  \/ \E k \in Slots : StoreFail(k)
  \/ \E k \in Slots : ConnectionSucceeds(k)
  \/ \E k \in Slots : ConnectionFails(k)
  \/ \E s \in Sockets : Drop(s)
  \/ \E s \in Sockets : Disconnect(s)
  \/ \E k \in Slots : DisconnectionRelayed(k)
  \/ \E k \in Slots : DisconnectThrow(k)
  \/ \E s \in Sockets, c \in RoomChatIds : JoinChat(s, c)
  \/ \E s \in Sockets, c \in RoomChatIds : LeaveChat(s, c)
  \/ \E s \in Sockets, c \in RoomChatIds : SendMessage(s, c)
  \/ \E k \in 1..MaxSends : SendAwait(k)
  \/ \E k \in 1..MaxSends : SendFails(k)
  \/ \E k \in 1..MaxSends : SendDeliver(k)

RoomSpec == Init /\ [][RoomNext]_vars

RelayNext ==
  \/ \E d \in TickSteps : Tick(d)
  \/ \E u \in Users, s \in Sockets : Connection(u, s)
  \/ \E k \in Slots : StoreApply(k)
  \/ \E k \in Slots : StoreFail(k)
  \/ \E k \in Slots : ConnectionSucceeds(k)
  \/ \E k \in Slots : ConnectionFails(k)
  \/ \E s \in Sockets : Drop(s)
  \/ \E s \in Sockets : Disconnect(s)
  \/ \E k \in Slots : DisconnectionRelayed(k)
  \/ \E k \in Slots : DisconnectThrow(k)
  \/ CleanupStaleConnections
  \/ \E k \in Slots : EvictionRelayed(k)
  \/ \E k \in Slots : SweepThrow(k)

RelaySpec == Init /\ [][RelayNext]_vars

MonitorNext ==
  \/ \E action \in {"connect", "disconnect"} : RecordConnection("u1", action)
  \/ \E n \in Bursts : RecordMessage("u1", n)
  \/ \E type \in ErrorTypes : RecordError(type)
  \/ OnError
  \/ \E mem \in MemoryValues : UpdateMetrics(mem)
  \/ CleanupHistory
  \/ \E d \in ElapseSteps : Elapse(d)
  \/ GetHealthStatus
  \/ GetDashboardData

MonitorSpec == Init /\ [][MonitorNext]_vars

----------------------------------------------------------------------------
(* The manager with a timer that keeps firing, a store that answers every  *)
(* request, continuations that run once their response is there, and store *)
(* writes that never fail for one user.  A rejected sweep is an unhandled  *)
(* rejection of the timer callback; the timer of a process that survives   *)
(* it goes on firing.                                                      *)

Steady == "u1"

StoreFailOther(k) == StoreFail(k) /\ tasks[k].userId # Steady

LiveNext ==
  \/ \E d \in TickSteps : Tick(d)
  \/ \E u \in Users, s \in Sockets, n \in Usernames : UserConnected(u, s, n)
  \/ \E u \in Users : UserDisconnected(u)
  \/ \E u \in Users : UpdateUserActivity(u)
  \/ CleanupStaleConnections
  \/ \E k \in Slots : StoreApply(k)
  \/ \E k \in Slots : StoreFailOther(k)
  \/ \E k \in Slots : ConnectResume(k)
  \/ \E k \in Slots : ConnectThrow(k)
  \/ \E k \in Slots : DisconnectResume(k)
  \/ \E k \in Slots : DisconnectThrow(k)
  \/ \E k \in Slots : ActivityResume(k)
  \/ \E k \in Slots : ActivityThrow(k)
  \/ \E k \in Slots : SweepResume(k)
  \/ \E k \in Slots : SweepThrow(k)

LiveSpec ==
  /\ Init
  /\ [][LiveNext]_vars
  /\ WF_vars(\E d \in TickSteps : Tick(d))
  /\ WF_vars(CleanupStaleConnections)
  /\ \A k \in Slots :
       /\ WF_vars(StoreApply(k))
       /\ WF_vars(ConnectResume(k)) /\ WF_vars(ConnectThrow(k))
       /\ WF_vars(DisconnectResume(k)) /\ WF_vars(DisconnectThrow(k))
       /\ WF_vars(ActivityResume(k)) /\ WF_vars(ActivityThrow(k))
       /\ WF_vars(SweepResume(k)) /\ WF_vars(SweepThrow(k))

----------------------------------------------------------------------------
(* Steps of userDisconnected as seen from outside *)

\* this step is a call of userDisconnected(u) from outside the sweep
CallsDisconnect(u) ==
  \/ ret' = Returned("disconnect", u, "noop", NoTime, NoSocket, NoSweep)
  \/ /\ Len(tasks') = Len(tasks) + 1
     /\ tasks'[Len(tasks')].op = "disconnect"
     /\ tasks'[Len(tasks')].userId = u

\* this step ends the suspended call at position k
Ends(k) == tasks' = RemoveAt(tasks, k)

\* the suspended call at position k is still suspended, unchanged, after the step
Stays(k) ==
  \/ k <= Len(tasks') /\ tasks'[k] = tasks[k]
  \/ k > 1 /\ k - 1 <= Len(tasks') /\ tasks'[k - 1] = tasks[k]

\* this step runs the continuation of the suspended call at position k
Advances(k) ==
  \/ Ends(k)
  \/ /\ Len(tasks') = Len(tasks)
     /\ tasks'[k] # tasks[k]
     /\ \A l \in Pending \ {k} : tasks'[l] = tasks[l]

Cached == {onlineUsers[k].userId : k \in 1..Len(onlineUsers)}

EntriesOf(u) == {k \in 1..Len(onlineUsers) : onlineUsers[k].userId = u}

----------------------------------------------------------------------------
(* C1: right after any userConnected or userDisconnected call returns,     *)
(* every user with an entry in the online-users cache has a store record   *)
(* whose isOnline is true.                                                 *)
CacheImpliesStoreOnline ==
  (ret.op \in {"connect", "disconnect"})
    => \A u \in Cached : store[u].exists /\ store[u].isOnline

(* C2: a call whose store write failed ends by failing to its caller, in a *)
(* step that leaves the cache alone and emits nothing; and the cache       *)
(* changes, or an event is emitted, only in the continuation of a call     *)
(* whose store write succeeded.                                            *)
FailedWriteNotApplied ==
  [][/\ \A k \in Pending :
          tasks[k].pc = "err" =>
            /\ Stays(k) \/ Ends(k)
            /\ Ends(k) =>
                 /\ ret'.outcome = "error" /\ ret'.userId = tasks[k].userId
                 /\ onlineUsers' = onlineUsers
                 /\ emitted' = <<>>
     /\ (onlineUsers' # onlineUsers \/ emitted' # <<>>) =>
          /\ ret'.outcome = "success"
          /\ \E k \in Pending : tasks[k].pc = "ok" /\ tasks[k].userId = ret'.userId
                                  /\ Advances(k)]_vars

FailedWriteSeen ==
  /\ ret.outcome = "error"
  /\ ret.op \in {"connect", "disconnect"}
  /\ onlineUsers # <<>>

(* C3: when a userConnected for a user is issued while an earlier          *)
(* userConnected for the same user, with another handle, still waits for   *)
(* its store write, then once both have returned the user has exactly one  *)
(* cache entry, and its handle and the store's socketId are the handle of  *)
(* the later call.                                                         *)
ConnectRaceLaterWins ==
  \A u \in Users :
    (race[u].kind = "cc" /\ CallsOf(u) = {} /\ store[u].exists) =>
      /\ Cardinality(EntriesOf(u)) = 1
      /\ MapGet(onlineUsers, u).socketId = race[u].socketId
      /\ store[u].socketId = race[u].socketId

(* C4: when a userConnected for a user is issued while a userDisconnected  *)
(* of that user still waits for its store write, then once both have       *)
(* returned the user is cached with the new handle and the store has       *)
(* isOnline = true with that handle.                                       *)
ReconnectAppliedLast ==
  \A u \in Users :
    (race[u].kind = "dc" /\ CallsOf(u) = {} /\ store[u].exists) =>
      /\ MapHas(onlineUsers, u)
      /\ MapGet(onlineUsers, u).socketId = race[u].socketId
      /\ store[u].isOnline /\ store[u].socketId = race[u].socketId

(* C5: no user is caller or callee of more than one call whose status is   *)
(* pending or accepted.                                                    *)
OneActiveCallPerUser ==
  \A u \in Users :
    Cardinality({i \in 1..Len(calls) :
                   IsActive(calls[i]) /\ u \in {calls[i].caller, calls[i].callee}}) <= 1

(* C6: when a sweep meets a store failure for one stale user, no other     *)
(* user of its stale list is left in the cache with a stale entry: the     *)
(* sweep goes on to disconnect them.                                       *)
SweepIsolatesFailure ==
  ret.sweep.state = "aborted" =>
    \A j \in 1..Len(ret.sweep.stale) :
      LET u == ret.sweep.stale[j]
      IN  u # ret.userId =>
            ~(MapHas(onlineUsers, u) /\ IsStale(MapGet(onlineUsers, u), ret.sweep.now))

(* C7: a sweep removes a user exactly when the time since its lastSeen is  *)
(* strictly greater than offlineTimeout: each removal is of a user of the  *)
(* stale list and comes with one userOffline event for that user, and when *)
(* the sweep is over no user of its stale list is left in the cache with   *)
(* an entry older than offlineTimeout, save one whose own store write      *)
(* failed.                                                                 *)
SweepEvictsExactlyStale ==
  /\ (ret.sweep.state # "none" /\ ret.outcome = "success" /\ ret.op = "disconnect") =>
       /\ \E j \in 1..Len(ret.sweep.stale) : ret.sweep.stale[j] = ret.userId
       /\ ~MapHas(onlineUsers, ret.userId)
       /\ Len(emitted) = 1
       /\ emitted[1].type = "userOffline" /\ emitted[1].userId = ret.userId
  /\ ret.sweep.state \in {"done", "aborted"} =>
       \A j \in 1..Len(ret.sweep.stale) :
         LET u == ret.sweep.stale[j]
         IN  (MapHas(onlineUsers, u) /\ IsStale(MapGet(onlineUsers, u), ret.sweep.now)) =>
               (ret.outcome = "error" /\ ret.userId = u)

\* the transport makes no further call, and no call for user u is suspended
Quiet(u) ==
  /\ issued = MaxCalls
  /\ CallsOf(u) = {}

(* C8: once the transport makes no further call, a cached user whose entry *)
(* is older than offlineTimeout, and for whom no call is under way, is     *)
(* eventually out of the cache and offline in the store.                   *)

StaleUserEventuallyEvicted ==
  (/\ MapHas(onlineUsers, Steady)
   /\ IsStale(MapGet(onlineUsers, Steady), clock)
   /\ Quiet(Steady))
    ~> (~MapHas(onlineUsers, Steady) /\ ~store[Steady].isOnline)

ConnectRoundTrip ==
  (ret.op = "connect" /\ ret.outcome = "success") =>
    /\ getUserStatus(ret.userId).isOnline
    /\ getUserStatus(ret.userId).lastSeen = ret.lastSeen
    /\ \E n \in Usernames :
         /\ getUserStatus(ret.userId).username = n
         /\ emitted = <<[type |-> "userOnline", userId |-> ret.userId, username |-> n,
                         lastSeen |-> ret.lastSeen, socketId |-> ret.socketId]>>
    /\ ret.stored = [exists |-> TRUE, isOnline |-> TRUE, lastSeen |-> ret.lastSeen,
                     socketId |-> ret.socketId, avatar |-> NoAvatar]

(* C11: right after a userDisconnected from the transport returns          *)
(* successfully, its store write has left the user's record with           *)
(* isOnline = false, lastSeen = the disconnect time and no socketId, the   *)
(* user has no cache entry (isUserOnline is false), and the step emitted   *)
(* exactly one userOffline event with the user id, the cached username and *)
(* the disconnect time.                                                    *)
DisconnectEffects ==
  (ret.op = "disconnect" /\ ret.outcome = "success" /\ ret.sweep = NoSweep) =>
    /\ ret.stored = [exists |-> TRUE, isOnline |-> FALSE, lastSeen |-> ret.lastSeen,
                     socketId |-> NoSocket, avatar |-> NoAvatar]
    /\ ~isUserOnline(ret.userId)
    /\ ~MapHas(onlineUsers, ret.userId)
    /\ \E n \in Usernames :
         emitted = <<[type |-> "userOffline", userId |-> ret.userId, username |-> n,
                      lastSeen |-> ret.lastSeen, socketId |-> NoSocket]>>

\* the store serves the write of the suspended call at position k in this step
Served(k) ==
  /\ Len(tasks') = Len(tasks)
  /\ tasks[k].pc = "sent" /\ tasks'[k].pc = "ok"

(* C12: an updateUserActivity for a user without a cache entry changes     *)
(* neither cache nor store; for a cached user its store write changes only *)
(* the lastSeen of that user's record, its continuation changes only the   *)
(* lastSeen of that user's cache entry, and no step of it emits an event.  *)
ActivityChangesOnlyLastSeen ==
  [][/\ \A k \in Pending :
          (tasks[k].op = "activity" /\ Served(k)) =>
            /\ \E t \in {store[tasks[k].userId].lastSeen, tasks[k].now} :
                 store' = [store EXCEPT ![tasks[k].userId].lastSeen = t]
            /\ onlineUsers' = onlineUsers /\ emitted' = <<>>
     /\ ret'.op = "activity" =>
          /\ store' = store /\ emitted' = <<>>
          /\ IF ret'.outcome = "success"
               THEN /\ MapHas(onlineUsers, ret'.userId)
                    /\ onlineUsers' =
                         MapSet(onlineUsers, ret'.userId,
                                [MapGet(onlineUsers, ret'.userId)
                                   EXCEPT !.lastSeen = ret'.lastSeen])
               ELSE onlineUsers' = onlineUsers]_vars

\* the statuses the cache gives for the ids of a list, nothing for other ids
CacheAnswers(userIds, statusMap) ==
  \A u \in Users :
    statusMap[u] =
      IF u \in Ids(userIds) /\ MapHas(onlineUsers, u)
        THEN [present |-> TRUE, username |-> MapGet(onlineUsers, u).username,
              isOnline |-> MapGet(onlineUsers, u).isOnline,
              lastSeen |-> MapGet(onlineUsers, u).lastSeen]
        ELSE NoStatus

RequestedIds ==
  IF lookups' = lookups THEN answer'.userIds ELSE lookups'[Len(lookups')].userIds

(* C14: the online-status route answers a list of more than 50 ids with    *)
(* 400 in a step that starts no getUsersStatus call and leaves store and   *)
(* cache alone, and it does not turn away a list of 1 to 50 ids: that      *)
(* request is answered 200 or suspended at the store query.                *)
BatchLimitIsFifty ==
  [][queried' # queried =>
       /\ Len(RequestedIds) > 50 =>
            /\ answer'.code = 400 /\ answer'.outcome = "rejected"
            /\ lookups' = lookups
            /\ UNCHANGED <<store, onlineUsers, tasks>>
       /\ Len(RequestedIds) \in 1..50 =>
            \/ lookups' # lookups /\ answer' = answer
            \/ lookups' = lookups /\ answer'.code = 200]_vars

TooManyRejected ==
  /\ answer.code = 400
  /\ Len(answer.userIds) = 51
  /\ lookups = <<>>

----------------------------------------------------------------------------
(* Delivery to sessions *)

\* how many copies of event e the client of socket s has in box
Copies(box, s, e) == Cardinality({i \in 1..Len(box[s]) : box[s][i] = e})

\* the event of the given name that the send_message handler d fans out
EventOf(event, d) == Event(event, d.msg, d.chatId, d.userId)

\* handler k runs its fan-out in this step
Delivers(k) ==
  /\ k \in Sending
  /\ sends[k].pc = "emit"
  /\ store[sends[k].userId].exists
  /\ sends' = RemoveAt(sends, k)

(* C15: when the handler of a send_message reaches its fan-out, every      *)
(* socket that is then in the chat's room gets exactly one new_message for *)
(* the message and every other socket gets none; no other step brings any  *)
(* new_message, so a participant without a session at that time gets      *)
(* nothing then and nothing after connecting later; no socket ever holds   *)
(* two new_message events of one message.                                  *)
NewMessageOncePerJoinedSession ==
  /\ [][\A s \in Sockets, c \in RoomChatIds, u \in Users, m \in 1..sent :
          LET e == Event("new_message", m, c, u)
          IN  IF \E k \in Sending : Delivers(k) /\ e = EventOf("new_message", sends[k])
                THEN Copies(inbox', s, e) =
                       Copies(inbox, s, e) + (IF ChatRoom(c) \in sockets[s].rooms THEN 1 ELSE 0)
                ELSE Copies(inbox', s, e) <= Copies(inbox, s, e)]_vars
  /\ [](\A s \in Sockets, c \in RoomChatIds, u \in Users, m \in 1..sent :
          Copies(inbox, s, Event("new_message", m, c, u)) <= 1)

\* a session of u2 in the room of c1 holds the one new_message of the
\* message u1 sent to c1 from a session that is in the room as well, and
\* the handler is through
SharedChatMessageReceived ==
  /\ sends = <<>>
  /\ \E s1, s2 \in Ready :
       /\ sockets[s1].userId = "u1" /\ sockets[s2].userId = "u2"
       /\ ChatRoom("c1") \in sockets[s1].rooms \cap sockets[s2].rooms
       /\ Copies(inbox, s1, Event("new_message", 1, "c1", "u1")) = 1
       /\ Copies(inbox, s2, Event("new_message", 1, "c1", "u1")) = 1

\* the room events of send_message
RoomEvents == {"new_message", "chat_updated"}

\* the room events that the client of socket s is sent in this step
Arriving(s) ==
  IF Len(inbox'[s]) > Len(inbox[s])
    THEN {i \in (Len(inbox[s]) + 1)..Len(inbox'[s]) : inbox'[s][i].event \in RoomEvents}
    ELSE {}

(* C16: a socket is sent a room event only in a step in which its user has *)
(* an entry in the presence cache, so that a session whose user is not in  *)
(* the cache gets no new_message and no chat_updated.                      *)
DeliveryOnlyToCachedUsers ==
  [][\A s \in Sockets : Arriving(s) # {} => MapHas(onlineUsers, sockets[s].userId)]_vars

(* C17: no socket holds more than one copy of a new_message or of a        *)
(* chat_updated of one message, whichever rooms it is in.                  *)
RoomEventAtMostOnce ==
  \A s \in Sockets, c \in RoomChatIds, u \in Users, m \in 1..sent :
    \A event \in RoomEvents : Copies(inbox, s, Event(event, m, c, u)) <= 1

(* C18: a room event of a chat is sent only to sockets of participants of  *)
(* that chat, and only for a message that a participant of the chat sent.  *)
ChatEventsOnlyAmongParticipants ==
  [][\A s \in Sockets : \A i \in Arriving(s) :
       /\ isMember(inbox'[s][i].chat, sockets[s].userId)
       /\ isMember(inbox'[s][i].chat, inbox'[s][i].userId)]_vars

----------------------------------------------------------------------------
(* Rejections of POST /initiate *)

\* the active calls that user u is caller or callee of
ActiveOf(u) == {i \in 1..Len(calls) : IsActive(calls[i]) /\ u \in {calls[i].caller, calls[i].callee}}

\* handler k of an initiate waits for its active-call lookup while its
\* caller or its callee is in an active call
LooksUpBusy(k) ==
  /\ k \in Asking
  /\ reqs[k].route = "initiate" /\ reqs[k].pc = "find"
  /\ ActiveOf(reqs[k].userId) \cup ActiveOf(reqs[k].callee) # {}

\* handler k takes its next step
Moves(k) ==
  \/ reqs' = RemoveAt(reqs, k)
  \/ Len(reqs') = Len(reqs) /\ reqs'[k] # reqs[k]

(* C19: when the active-call lookup of an initiate is answered while the   *)
(* caller or the chosen callee is caller or callee of a pending or         *)
(* accepted call, the handler ends there with 409 naming such a call (500  *)
(* if the lookup itself fails), and the calls collection is unchanged: no  *)
(* record is created and none is changed; the 409 answer is always open to *)
(* the handler in that state.                                              *)
BusyInitiateRejected ==
  /\ [][\A k \in Asking :
          (LooksUpBusy(k) /\ Moves(k)) =>
            /\ reqs' = RemoveAt(reqs, k)
            /\ calls' = calls
            /\ res'.route = "initiate" /\ res'.userId = reqs[k].userId
            /\ res'.code \in {409, 500}
            /\ res'.code = 409 =>
                 res'.callId \in ActiveOf(reqs[k].userId) \cup ActiveOf(reqs[k].callee)]_vars
  /\ [](\A k \in Asking : LooksUpBusy(k) => ENABLED (InitiateFind(k) /\ res'.code = 409))

\* an initiate has been answered 409 because of a call of its callee that
\* its caller has no part in
CalleeBusyRejected ==
  /\ res.route = "initiate" /\ res.code = 409
  /\ res.callId \in 1..Len(calls)
  /\ IsActive(calls[res.callId])
  /\ res.userId \notin {calls[res.callId].caller, calls[res.callId].callee}

(* C20: a call record is only ever created for a chat of exactly two       *)
(* participants, and an initiate for any other chat is over, without a     *)
(* record, once its chat has been loaded.                                  *)
CallOnlyInTwoPartyChat ==
  /\ \A i \in 1..Len(calls) : Len(Chats[calls[i].chat]) = 2
  /\ \A k \in Asking :
       (reqs[k].route = "initiate" /\ reqs[k].pc \in {"find", "create", "populate"}) =>
         Len(Chats[reqs[k].chatId]) = 2

----------------------------------------------------------------------------
(* Accept, decline and end *)

\* the route whose success sets the given status
RouteOf(status) ==
  CASE status = "accepted" -> "accept"
    [] status = "declined" -> "decline"
    [] OTHER -> "end"

\* handler k, waiting for the call it asked for, is one the route turns away:
\* the call is there and the requester is not its callee or it is not pending
NotForCallee(k) ==
  /\ k \in Asking
  /\ reqs[k].route \in {"accept", "decline"} /\ reqs[k].pc = "load"
  /\ reqs[k].callId <= Len(calls)
  /\ \/ calls[reqs[k].callId].callee # reqs[k].userId
     \/ calls[reqs[k].callId].status # "pending"

(* C21: a call's status becomes accepted or declined only in a step of an  *)
(* accept or decline handler of the call's callee and only from pending;   *)
(* an accept or decline by anyone else, or for a call that is not pending, *)
(* ends when the call is loaded, with 403 or 400 (500 if the load fails),  *)
(* and leaves the calls collection as it is.                               *)
AcceptDeclineOnlyFromPending ==
  [][/\ \A id \in 1..Len(calls) :
          (calls'[id].status # calls[id].status
             /\ calls'[id].status \in {"accepted", "declined"}) =>
            /\ calls[id].status = "pending"
            /\ \E k \in Asking :
                 /\ reqs[k].route = RouteOf(calls'[id].status)
                 /\ reqs[k].callId = id
                 /\ reqs[k].userId = calls[id].callee
                 /\ reqs' = RemoveAt(reqs, k)
     /\ \A k \in Asking :
          (NotForCallee(k) /\ Moves(k)) =>
            /\ reqs' = RemoveAt(reqs, k)
            /\ res'.code \in {403, 400, 500}
            /\ calls' = calls]_vars

\* handler k of an end, waiting for the call it asked for, comes from a user
\* who is neither caller nor callee of that call
NotParticipant(k) ==
  /\ k \in Asking
  /\ reqs[k].route = "end" /\ reqs[k].pc = "load"
  /\ reqs[k].callId <= Len(calls)
  /\ reqs[k].userId \notin {calls[reqs[k].callId].caller, calls[reqs[k].callId].callee}

\* handler k of an end, waiting for the call it asked for, comes from the
\* caller or the callee of that call
ByParticipant(k) ==
  /\ k \in Asking
  /\ reqs[k].route = "end" /\ reqs[k].pc = "load"
  /\ reqs[k].callId <= Len(calls)
  /\ reqs[k].userId \in {calls[reqs[k].callId].caller, calls[reqs[k].callId].callee}

(* C22: an end by a user who is neither caller nor callee ends at the load *)
(* with 403 (500 if the load fails) and changes nothing; an end by the     *)
(* caller or the callee is not turned away; and when an end answers 200    *)
(* the stored call has status ended and its duration is the whole seconds  *)
(* from its startedAt to its endedAt, or 0 if it has no startedAt.         *)
EndByParticipantSetsDuration ==
  [][/\ \A k \in Asking :
          (NotParticipant(k) /\ Moves(k)) =>
            /\ reqs' = RemoveAt(reqs, k)
            /\ res'.code \in {403, 500}
            /\ calls' = calls
     /\ \A k \in Asking :
          (ByParticipant(k) /\ Moves(k)) =>
            \/ Len(reqs') = Len(reqs) /\ reqs'[k].pc = "save"
            \/ reqs' = RemoveAt(reqs, k) /\ res'.code = 500
     /\ \A k \in Asking :
          (reqs[k].route = "end" /\ reqs' = RemoveAt(reqs, k) /\ res'.code = 200) =>
            LET d == calls'[reqs[k].callId]
            IN  /\ d.status = "ended"
                /\ reqs[k].userId \in {d.caller, d.callee}
                /\ d.duration = IF d.startedAt = NoTime
                                  THEN 0 ELSE (d.endedAt - d.startedAt) \div 1000]_vars

(* C23: connections.total is the number of recordConnection calls made,    *)
(* connections.active is never negative, connections.peak is never below   *)
(* connections.active, and at every step connections.peak becomes the      *)
(* larger of what it was and the new connections.active, so that it never  *)
(* decreases and is the largest value connections.active has had.          *)
ConnectionCountersConsistent ==
  /\ [](/\ metrics.connections.total = made.connections
        /\ metrics.connections.active >= 0
        /\ metrics.connections.peak >= metrics.connections.active)
  /\ [][metrics'.connections.peak =
          IF metrics'.connections.active > metrics.connections.peak
            THEN metrics'.connections.active ELSE metrics.connections.peak]_vars

\* three calls made: two connects that raise the peak to 2, then a disconnect
PeakAboveActive ==
  /\ made.connections = 3
  /\ metrics.connections.peak = 2
  /\ metrics.connections.active = 1
  /\ Length(history.connections) = 3

\* the list with n more records equal to data at its end
Extended(runs, data, n) ==
  IF runs # <<>> /\ runs[Len(runs)].data = data
    THEN [runs EXCEPT ![Len(runs)].count = @ + n]
    ELSE Append(runs, Run(data, n))

\* list a is what is left of list b when some of b's oldest records are dropped
IsSuffix(a, b) ==
  \/ a = <<>>
  \/ /\ Len(a) <= Len(b)
     /\ LET shift == Len(b) - Len(a)
        IN  /\ a[1].data = b[shift + 1].data
            /\ a[1].count <= b[shift + 1].count
            /\ \A i \in 2..Len(a) : a[i] = b[shift + i]

(* C24: no history is ever longer than historySize; and a step that makes  *)
(* n record calls of one kind leaves that history equal to the old list    *)
(* followed by the n new records, without as many of its oldest records as *)
(* it takes to be no longer than historySize.                              *)
HistoryKeepsMostRecent ==
  /\ [](\A k \in Kinds : Length(history[k]) <= historySize)
  /\ [][\A k \in Kinds :
          made'[k] > made[k] =>
            LET n == made'[k] - made[k]
                new == history'[k][Len(history'[k])].data
                all == Extended(history[k], new, n)
            IN  /\ history'[k] # <<>>
                /\ new.timestamp = clock
                /\ IsSuffix(history'[k], all)
                /\ Length(history'[k]) =
                     IF Length(all) > historySize THEN historySize ELSE Length(all)]_vars

\* one more message than historySize recorded: the oldest record is gone
\* and the newest, of a later time, is the last of the list
OldestMessageDropped ==
  /\ made.messages = historySize + 1
  /\ Len(history.messages) = 2
  /\ history.messages[1].count = historySize - 1
  /\ history.messages[2].count = 1
  /\ history.messages[1].data.timestamp < history.messages[2].data.timestamp

\* the message history records of the w milliseconds before time t
Within(t, w) == SelectSeq(history.messages, LAMBDA r : t - r.data.timestamp < w)

(* C25: whenever the dashboard data is read, its messages.perMinute is the *)
(* number of message history records of the 60 seconds before the read and *)
(* its messages.perHour the number of those of the 3600 seconds before it, *)
(* however long ago the last recordMessage call was.                       *)
DashboardRatesAtReadTime ==
  report.of = "dashboard" =>
    /\ report.dashboard.messages.perMinute = Length(Within(report.at, MinuteMs))
    /\ report.dashboard.messages.perHour = Length(Within(report.at, HourMs))

(* C26: whenever the health or the dashboard data is read, no history      *)
(* holds a record older than 24 hours and none holds more than historySize *)
(* records.                                                                *)
NoOldRecordAtQuery ==
  report.of # "none" =>
    \A k \in Kinds :
      /\ Length(history[k]) <= historySize
      /\ \A i \in 1..Len(history[k]) :
           report.at - history[k][i].data.timestamp <= MaxAge

(* C27: the health read has score 100 less 20 for a memoryUsage above 500, *)
(* less 30 for errors.total * 100 above max(messages.total, 1), less 10    *)
(* for no active connection after at least one recorded; its label is      *)
(* excellent from 90, good from 70, warning from 50 and critical below;    *)
(* and the read leaves the metrics and the histories as they were.         *)
HealthScoreAndLabel ==
  /\ [](report.of = "health" =>
          LET memory == IF metrics.performance.memoryUsage > 500 THEN 20 ELSE 0
              messages == IF metrics.messages.total > 1 THEN metrics.messages.total ELSE 1
              errors == IF metrics.errors.total * 100 > messages THEN 30 ELSE 0
              idle == IF metrics.connections.active = 0 /\ metrics.connections.total > 0
                        THEN 10 ELSE 0
              score == 100 - memory - errors - idle
          IN  /\ report.health.score = score
              /\ report.health.status =
                   CASE score >= 90 -> "excellent"
                     [] score >= 70 /\ score < 90 -> "good"
                     [] score >= 50 /\ score < 70 -> "warning"
                     [] score < 50 -> "critical")
  /\ [][report'.of = "health" => metrics' = metrics /\ history' = history]_vars

\* a health read with all three deductions made
CriticalHealthRead ==
  /\ report.of = "health"
  /\ report.health = [score |-> 40, status |-> "critical"]
  /\ metrics.performance.memoryUsage > MemoryLimit
  /\ metrics.errors.total > 0
  /\ metrics.connections.total > 0

(* C28: a recordError call adds one to errors.total and to the counter of  *)
(* the error's type alone, appends one record of that type and time to the *)
(* error history, delivers one error event to a registered listener, and   *)
(* raises nothing to its caller, with or without a listener.               *)
RecordErrorNeverRaises ==
  [][made'.errors > made.errors =>
       /\ metrics'.errors.total = metrics.errors.total + 1
       /\ \E type \in ErrorTypes :
            /\ metrics'.errors.types =
                 [metrics.errors.types EXCEPT ![type] = @ + 1]
            /\ history'.errors =
                 Extended(history.errors, [type |-> type, timestamp |-> clock], 1)
       /\ listening => Len(alerts') = 1
       /\ ~thrown']_vars

PresenceFields == {"isOnline", "lastSeen", "socketId"}

\* the store serves, in this step, the write of presence call k
Applies(k) ==
  /\ tasks[k].pc = "sent"
  /\ Len(tasks') = Len(tasks)
  /\ tasks'[k].pc = "ok"

StoreOnlineOnlyIfCached ==
  tasks = <<>> =>
    \A u \in Users : (store[u].exists /\ store[u].isOnline) => MapHas(onlineUsers, u)

\* how many copies of event e this step adds to what socket s was sent
Added(s, e) ==
  IF Len(inbox'[s]) > Len(inbox[s])
    THEN Cardinality({i \in (Len(inbox[s]) + 1)..Len(inbox'[s]) : inbox'[s][i] = e})
    ELSE 0

(* C31: the step in which the connection handler of socket s gets a        *)
(* successful userConnected sends one userOnline of its user to every      *)
(* other open socket and none to s; and a step in which the manager emits  *)
(* userOffline, for a disconnect or for an eviction, sends one userOffline *)
(* of that user to every open socket.                                      *)
PresenceEventsRelayed ==
  [][/\ \A s \in Sockets :
          (sockets[s].state = "connecting" /\ sockets'[s].state = "ready") =>
            \A t \in Sockets :
              Added(t, Event("userOnline", 0, "", sockets[s].userId)) =
                IF t # s /\ sockets[t].state # "closed" THEN 1 ELSE 0
     /\ \A i \in 1..Len(emitted') :
          (tasks' # tasks /\ emitted'[i].type = "userOffline") =>
            \A t \in Sockets :
              Added(t, Event("userOffline", 0, "", emitted'[i].userId)) =
                IF sockets'[t].state # "closed" THEN 1 ELSE 0]_vars

\* a sweep has just evicted a user while two sockets are open: each was sent
\* the userOffline, and the socket that connected first holds the userOnline
\* of the second, which holds none of its own user
EvictionReachesOpenSessions ==
  /\ ret.sweep.state \in {"running", "done"}
  /\ emitted # <<>>
  /\ \E s, t \in Sockets :
       /\ s # t
       /\ sockets[s].state = "ready" /\ sockets[t].state = "ready"
       /\ inbox[s] # <<>> /\ inbox[s][Len(inbox[s])] = Event("userOffline", 0, "", ret.userId)
       /\ inbox[t] # <<>> /\ inbox[t][Len(inbox[t])] = Event("userOffline", 0, "", ret.userId)
       /\ Copies(inbox, s, Event("userOnline", 0, "", sockets[t].userId)) = 1
       /\ Copies(inbox, t, Event("userOnline", 0, "", sockets[t].userId)) = 0

\* the updateUserActivity call k resumes after its store write in this step
ActivityResumes(k) ==
  /\ tasks[k].op = "activity" /\ tasks[k].pc = "ok"
  /\ tasks' = RemoveAt(tasks, k)

(* C32: the step in which an updateUserActivity call resumes after its     *)
(* store write gives no cache entry to a user who has none by then (a      *)
(* disconnect removed it meanwhile), and leaves the session handle of the  *)
(* entry as it is (a newer connect set it meanwhile).                      *)
ActivityKeepsLaterPresence ==
  [][\A k \in Pending :
       ActivityResumes(k) =>
         LET u == tasks[k].userId
         IN  IF MapHas(onlineUsers, u)
               THEN /\ MapHas(onlineUsers', u)
                    /\ MapGet(onlineUsers', u).socketId = MapGet(onlineUsers, u).socketId
               ELSE ~MapHas(onlineUsers', u)]_vars

(* C33: a userOffline is emitted for a user only in a step that takes that *)
(* user's entry out of the cache; as only a userOnline comes with a new    *)
(* entry, no second userOffline of a user follows the first without a      *)
(* userOnline in between, also when a disconnect overlaps a sweep or two   *)
(* sweeps overlap.                                                         *)
OneOfflinePerOnline ==
  [][\A i \in 1..Len(emitted') :
       (tasks' # tasks /\ emitted'[i].type = "userOffline") =>
         /\ MapHas(onlineUsers, emitted'[i].userId)
         /\ ~MapHas(onlineUsers', emitted'[i].userId)]_vars

(* C34: when no presence call is at its await and no time has passed since *)
(* the connections were made, a user with a record who has an open socket  *)
(* whose userConnected succeeded is online for isUserOnline and has        *)
(* isOnline = true in the store, whatever other sockets of the user have   *)
(* closed.                                                                 *)
OpenSessionKeepsUserOnline ==
  (tasks = <<>> /\ clock = 0) =>
    \A s \in Ready :
      store[sockets[s].userId].exists =>
        /\ isUserOnline(sockets[s].userId)
        /\ store[sockets[s].userId].isOnline

\* in this step a sweep's userDisconnected returned with success
SweepEvicts ==
  /\ tasks' # tasks
  /\ ret'.op = "disconnect" /\ ret'.outcome = "success"
  /\ ret'.sweep.state \in {"running", "done"}

(* C35: the step in which a sweep takes a user's entry out of the cache    *)
(* finds that entry stale: its lastSeen is more than offlineTimeout before *)
(* the time of the step.                                                   *)
SweepRemovesOnlyStale ==
  [][(SweepEvicts /\ MapHas(onlineUsers, ret'.userId)) =>
       IsStale(MapGet(onlineUsers, ret'.userId), clock)]_vars

\* user u has a ping under way that was made no more than offlineTimeout
\* after the lastSeen of the entry it found and no more than offlineTimeout
\* ago, and whose store write has been applied
PingsInTime(u) ==
  \E j \in Pending :
    /\ tasks[j].op = "activity" /\ tasks[j].userId = u /\ tasks[j].pc = "ok"
    /\ tasks[j].now - tasks[j].userData.lastSeen <= offlineTimeout
    /\ clock - tasks[j].now <= offlineTimeout

(* C36: a sweep does not take out of the cache, nor emit userOffline for,  *)
(* a user who pings in time: whose latest ping came no more than           *)
(* offlineTimeout after the one before, no more than offlineTimeout ago,   *)
(* and has been written to the store.                                      *)
PingingUserNotEvicted ==
  [][(SweepEvicts /\ MapHas(onlineUsers, ret'.userId)) => ~PingsInTime(ret'.userId)]_vars

\* user u is offline in cache and store and no call for u is at its await
EvictedOffline(u) ==
  /\ ~MapHas(onlineUsers, u)
  /\ ~store[u].isOnline
  /\ CallsOf(u) = {}

\* a userConnected for user u is issued in this step
ConnectIssued(u) ==
  /\ Len(tasks') = Len(tasks) + 1
  /\ tasks'[Len(tasks')].op = "connect" /\ tasks'[Len(tasks')].userId = u

StatusMoves ==
  {<<"pending", "accepted">>, <<"pending", "declined">>, <<"pending", "ended">>,
   <<"accepted", "ended">>}

(* C38: a step changes the status of a call only along pending to          *)
(* accepted, pending to declined, pending to ended or accepted to ended,   *)
(* and no step changes the status, endedAt or duration of a call whose     *)
(* status is declined, ended or missed.                                    *)
CallStatusOnlyMovesForward ==
  [][\A id \in 1..Len(calls) :
       /\ calls'[id].status # calls[id].status =>
            <<calls[id].status, calls'[id].status>> \in StatusMoves
       /\ calls[id].status \in {"declined", "ended", "missed"} =>
            /\ calls'[id].status = calls[id].status
            /\ calls'[id].endedAt = calls[id].endedAt
            /\ calls'[id].duration = calls[id].duration]_vars

\* handler k of an accept, a decline or an end reports success in this step
ReportsSuccess(k) ==
  /\ reqs[k].route \in {"accept", "decline", "end"}
  /\ reqs' = RemoveAt(reqs, k)
  /\ res'.code = 200

(* C39: when an accept, a decline or an end of a call reports success, no  *)
(* other of these operations has taken the call since the handler loaded   *)
(* it (at the save behind the answer the call has the status it was loaded *)
(* with, or already the one the answer names), and the stored status is    *)
(* the one the answer names; so of an accept and a decline, or an accept   *)
(* and an end, that overlap on a pending call only one reports success,    *)
(* and no call is notified as both accepted and declined.                  *)
OneAnswerToPendingCall ==
  [][\A k \in Asking :
       ReportsSuccess(k) =>
         /\ calls[reqs[k].callId].status \in {reqs[k].doc.status, res'.status}
         /\ calls'[reqs[k].callId].status = res'.status]_vars

(* C40: the step in which the userConnected of a connection handler        *)
(* settles, with success or with a store error, leaves the socket in its   *)
(* personal room user_<userId> with its handlers registered, so that the   *)
(* disconnect of the socket will be handled.                               *)
ConnectionAlwaysRegisters ==
  [][\A s \in Sockets :
       (sockets[s].state = "connecting" /\ sockets'[s].state # "connecting") =>
         /\ sockets'[s].state = "ready"
         /\ UserRoom(sockets[s].userId) \in sockets'[s].rooms]_vars

====
